---- MODULE Spec2Model ----
(***************************************************************************)
(* Portfolio Watchdog: the traffic-light classifier (src/core/engine.py)   *)
(* and the TTL cache that wraps it (src/utils/cache.py).                   *)
(*                                                                         *)
(* Prices are integers.  The float comparisons of the code that scale a    *)
(* price (x * 1.05, x * 0.97, 0.618 * x, ... < 0.03) are cross-multiplied  *)
(* into integer comparisons.  A note is the sequence of its sentences      *)
(* (the code joins them with one blank).                                   *)
(***************************************************************************)
EXTENDS Integers, Sequences, FiniteSets, TLC

VARIABLES
    pc,                    \* "idle" | "returned" | "raised": the caller's position
    close,                 \* engine.py:534   float(latest["Close"])
    sma_200,               \* engine.py:535
    high_20,               \* engine.py:536
    momentum,              \* engine.py:537
    prev_momentum,         \* engine.py:538
    last_swing_low_price,  \* engine.py:526
    fib_check,             \* what the Fibonacci test (576-580) gives on this input
    div_check,             \* what check_hidden_bullish_divergence (586-592) gives
    rows,                  \* len(df_ind), engine.py:529
    commentary,            \* how the commentary collaborator ended: "text"|"note"|"raise"
    result,                \* the TrafficLightResult returned, or NoResult
    cache,                 \* _classification_cache.cache: key -> [value, timestamp]
    now,                   \* datetime.now(), in seconds
    args,                  \* the arguments of the latest call through the wrapper
    sw,                    \* a call of the swing-low detector: its arguments and results
    dv,                    \* a call of check_hidden_bullish_divergence
    sn,                    \* a classification of a long frame (sniper checks)
    ci,                    \* a call of compute_indicators
    ft,                    \* a call of fetch_ohlcv: its locals and its position
    th,                    \* the worker threads of a watchlist batch, by ticker
    out,                   \* the rows of the batch (app.py:434-442)
    dcache,                \* _data_cache.cache: key -> [value, timestamp]
    cf,                    \* a call of classify_ticker(ticker) that fetches its data
    rs,                    \* a call of resample_to_weekly (and of it on its output)
    sp,                    \* the support level and the close of one daily series
    rx,                    \* the two oscillator implementations on one series
    tt,                    \* one TTLCache used by one caller: its history
    io,                    \* sys.stdout, sys.stderr, the logger level; fetch threads
    tc                     \* one TTLCache used by several threads

vars == <<pc, close, sma_200, high_20, momentum, prev_momentum,
          last_swing_low_price, fib_check, div_check, rows, commentary,
          result, cache, now, args, sw, dv, sn, ci, ft, th, out,
          dcache, cf, rs, sp, rx, tt, io, tc>>

\* the state of the other components
pureVars == <<sw, dv, sn, ci, ft, th, out>>

moreVars == <<dcache, cf, rs, sp, rx, tt, io, tc>>

coreVars == <<pc, close, sma_200, high_20, momentum, prev_momentum,
              last_swing_low_price, fib_check, div_check, rows, commentary>>

-----------------------------------------------------------------------------
(* Bounds of the model *)

\* longest indicator frame (rows that survive compute_indicators' dropna)
MaxRows == 2

\* the clock stops advancing once it has reached this (seconds)
MaxNow == 400

\* prices a bar may carry
Prices == {10, 14, 20}

\* daily highs drawn for the frame
Highs == {14, 20}

\* oscillator values drawn for the frame (one oversold, one not)
RsiValues == {20, 40}

\* steps of the clock (seconds): the TTL of 300 is met exactly and exceeded
Delays == {100, 200}

Tickers == {"aapl", "AAPL", "MSFT"}

\* the clock of the fetching classifier stops advancing once it has reached this
MaxFetchNow == 2000

\* the step of that clock: past the classification TTL; two steps are
\* past the data TTL
FetchDelay == 1000

\* longest weekly series drawn bar by bar
MaxWeeks == 6

\* weekly lows a bar may carry
LowValues == {9, 10, 11}

\* longest frame handed to the divergence detector on its own
MaxBars == 4

\* closes around a support of 10: below 9.7, inside the zone, above 10.5
DivCloses == {9, 10, 11}

\* oscillator values: two oversold ones and one above the threshold
DivRsis == {20, 25, 40}

\* window lengths given to the detector, shorter than the longest frame
DivWindows == {2, 3}

CommentaryOutcomes == {"text", "note", "raise"}

NoResult == [kind |-> "none"]

-----------------------------------------------------------------------------
(* Program constants *)

FIB_WINDOW == 60            \* df_ind["High"].tail(60)
DIV_LOOKBACK == 80          \* lookback_bars=80
OVERSOLD_LEVEL == 30        \* oversold_level=30.0
CLASS_CACHE_TTL == 300      \* seconds
DATA_CACHE_TTL == 1800      \* seconds
SUPPORT_TAIL == 20          \* df_weekly["Low"].tail(20)
SMA_WINDOW == 200           \* close.rolling(window=200, min_periods=50)
SMA_MIN_PERIODS == 50
HIGH_WINDOW == 20           \* high.rolling(window=20, min_periods=5)
HIGH_MIN_PERIODS == 5
RSI_PERIOD == 14            \* timeperiod=14
max_retries == 3            \* engine.py:91
retry_delay == 1            \* engine.py:92, seconds

NOTE_STRUCTURE ==
    "Price closed below last major weekly swing low (structure broken)."
NOTE_PERSISTENT ==
    "Price is below 200-day MA with persistent negative momentum."
NOTE_HEALTHY ==
    "Trend is healthy: price above 200-day MA and momentum positive."
NOTE_CORRECTION ==
    "Price is in a correction below 20-day high but structure is intact above swing low."
NOTE_FIB ==
    "Price is testing 61.8% Fibonacci retracement support."
NOTE_DIVERGENCE ==
    "RSI oversold while price holds above swing low (hidden bullish divergence)."
NOTE_FALLBACK ==
    "Trend is weak and outside defined healthy correction zone."
AI_TEXT == "generated commentary"

-----------------------------------------------------------------------------
(* Helpers over sequences *)

Abs(x) == IF x < 0 THEN -x ELSE x

\* pandas .tail(k): the positions of the last min(k, n) rows
TailIdx(s, k) == {i \in 1..Len(s) : i > Len(s) - k}

SetMax(S) == CHOOSE m \in S : \A x \in S : x <= m

\* the sentences of a note (note_parts), as a set
Sentences(note) == {note[i] : i \in 1..Len(note)}

-----------------------------------------------------------------------------
(* check_hidden_bullish_divergence, engine.py:404-474.  df is the indicator *)
(* frame; closes and rsis are its Close and rsi_14 columns.                *)

\* a detector that reads the whole frame instead of its tail
check_divergence_whole_frame(df, swing_low_price, oversold_level, lookback_bars) ==
    LET recent   == 1..Len(df)
        oversold == {i \in recent : df[i].rsi_14 < oversold_level}
    IN  IF oversold = {} THEN FALSE
        ELSE LET last_oversold_idx == SetMax(oversold)
             IN  /\ 100 * df[last_oversold_idx].Close <= 105 * swing_low_price
                 /\ \E t \in recent :
                       /\ t > last_oversold_idx
                       /\ df[t].rsi_14 > df[last_oversold_idx].rsi_14
                       /\ 100 * df[t].Close >= 97 * swing_low_price

check_hidden_bullish_divergence(df, swing_low_price, oversold_level, lookback_bars) ==
    LET recent   == TailIdx(df, lookback_bars)
        oversold == {i \in recent : df[i].rsi_14 < oversold_level}
    IN  IF Len(df) = 0 THEN FALSE
        ELSE IF oversold = {} THEN FALSE
        ELSE LET last_oversold_idx == SetMax(oversold)
                 price_at_oversold == df[last_oversold_idx].Close
                 rsis_after        == {i \in recent : i > last_oversold_idx}
                 oversold_rsi      == df[last_oversold_idx].rsi_14
             IN  IF 100 * price_at_oversold > 105 * swing_low_price THEN FALSE
                 ELSE IF rsis_after = {} THEN FALSE
                 ELSE \E t \in rsis_after :
                         /\ df[t].rsi_14 > oversold_rsi
                         /\ 100 * df[t].Close >= 97 * swing_low_price

-----------------------------------------------------------------------------
(* classify_ticker, engine.py:478-636: the body of the function.           *)

\* str.upper() on the tickers of the model
Upper(ticker) == IF ticker = "aapl" THEN "AAPL" ELSE ticker

\* engine.py:530-531
Latest(df_ind) == df_ind[Len(df_ind)]
Prev(df_ind) == IF Len(df_ind) >= 2 THEN df_ind[Len(df_ind) - 1] ELSE Latest(df_ind)

\* the comparison of line 543 turned round
is_below_swing_low_rev(c, swing_low) == c > swing_low

\* engine.py:543
is_below_swing_low(c, swing_low) == c < swing_low

\* line 545 without the previous bar's momentum
is_below_sma_no_prev(c, sma, m, pm) == c < sma /\ m < 0

\* engine.py:544-546
is_below_sma_with_negative_momentum(c, sma, m, pm) == c < sma /\ m < 0 /\ pm < 0

\* line 560 with a momentum of zero accepted
green_test_ge(c, sma, m) == c > sma /\ m >= 0

\* line 560 with the sign of the momentum test wrong
green_test_neg(c, sma, m) == c > sma /\ m < 0

\* engine.py:560
green_test(c, sma, m) == c > sma /\ m > 0

\* line 566 with the rolling high itself accepted
yellow_test_le(c, h20, swing_low) == c <= h20 /\ c > swing_low

\* line 566 with the support comparison turned round
yellow_test_rev(c, h20, swing_low) == c < h20 /\ c < swing_low

\* engine.py:566
yellow_test(c, h20, swing_low) == c < h20 /\ c > swing_low

\* the highest High of the whole frame
swing_high_of_frame(df_ind) == SetMax({df_ind[i].High : i \in 1..Len(df_ind)})

\* engine.py:575  float(df_ind["High"].tail(60).max())
swing_high_of(df_ind) == SetMax({df_ind[i].High : i \in TailIdx(df_ind, FIB_WINDOW)})

\* engine.py:576-580, for positive prices:
\*   fib_61_8 = swing_high - 0.618 * (swing_high - swing_low)
\*   abs(close - fib_61_8) / swing_high < 0.03
fib_test(c, swing_high, swing_low) ==
    /\ swing_high > swing_low
    /\ Abs(1000 * c - (1000 * swing_high - 618 * (swing_high - swing_low)))
          < 30 * swing_high

\* engine.py:586-592
divergence_test(df_ind, swing_low) ==
    check_hidden_bullish_divergence(df_ind, swing_low, OVERSOLD_LEVEL, DIV_LOOKBACK)

\* engine.py:573-595: the sentences the corrective branch appends
sniper_notes(df_ind, c, swing_low) ==
    (IF fib_test(c, swing_high_of(df_ind), swing_low) THEN <<NOTE_FIB>> ELSE << >>)
    \o (IF divergence_test(df_ind, swing_low) THEN <<NOTE_DIVERGENCE>> ELSE << >>)

\* engine.py:548-599: the branch of the if/elif chain that is taken
matched_rule(c, sma, h20, m, pm, swing_low) ==
    IF is_below_swing_low(c, swing_low) THEN "structure"
    ELSE IF is_below_sma_with_negative_momentum(c, sma, m, pm) THEN "persistent"
    ELSE IF green_test(c, sma, m) THEN "green"
    ELSE IF yellow_test(c, h20, swing_low) THEN "yellow"
    ELSE "fallback"

\* the chain without its final else: status is never assigned there
status_of_no_else(rule) ==
    CASE rule = "green"  -> [status |-> "GREEN", emoji |-> "green_circle"]
      [] rule = "yellow" -> [status |-> "YELLOW", emoji |-> "yellow_circle"]
      [] rule = "fallback" -> [status |-> "", emoji |-> ""]
      [] OTHER           -> [status |-> "RED", emoji |-> "red_circle"]

\* status, emoji = ... of each branch (550, 556, 562, 568, 598)
status_of(rule) ==
    CASE rule = "green"  -> [status |-> "GREEN", emoji |-> "green_circle"]
      [] rule = "yellow" -> [status |-> "YELLOW", emoji |-> "yellow_circle"]
      [] OTHER           -> [status |-> "RED", emoji |-> "red_circle"]

\* the sniper checks dedented out of the corrective branch: they run after
\* every branch
note_parts_of_dedent(rule, df_ind, c, swing_low) ==
    (CASE rule = "structure"  -> <<NOTE_STRUCTURE>>
       [] rule = "persistent" -> <<NOTE_PERSISTENT>>
       [] rule = "green"      -> <<NOTE_HEALTHY>>
       [] rule = "yellow"     -> <<NOTE_CORRECTION>>
       [] rule = "fallback"   -> <<NOTE_FALLBACK>>)
    \o sniper_notes(df_ind, c, swing_low)

\* note_parts of each branch (551-553, 557-559, 563-565, 569-595, 599)
note_parts_of(rule, df_ind, c, swing_low) ==
    CASE rule = "structure"  -> <<NOTE_STRUCTURE>>
      [] rule = "persistent" -> <<NOTE_PERSISTENT>>
      [] rule = "green"      -> <<NOTE_HEALTHY>>
      [] rule = "yellow"     -> <<NOTE_CORRECTION>> \o sniper_notes(df_ind, c, swing_low)
      [] rule = "fallback"   -> <<NOTE_FALLBACK>>

\* engine.py:530-601: the decision tree; status, emoji and note
decide(df_ind, swing_low) ==
    LET c    == Latest(df_ind).Close
        rule == matched_rule(c, Latest(df_ind).sma_200, Latest(df_ind).high_20,
                             Latest(df_ind).momentum, Prev(df_ind).momentum,
                             swing_low)
    IN  [status     |-> status_of(rule).status,
         emoji      |-> status_of(rule).emoji,
         note_parts |-> note_parts_of(rule, df_ind, c, swing_low)]

\* the except branch of line 624 as a bare pass: ai_commentary stays ""
ai_commentary_of_pass(outcome, note) ==
    CASE outcome = "text"  -> <<AI_TEXT>>
      [] outcome = "note"  -> note
      [] outcome = "raise" -> << >>

\* engine.py:603-626: the commentary step.  outcome is how the collaborator
\* ended: it produced a text, it fell back to the note itself, or it raised.
ai_commentary_of(outcome, note) ==
    CASE outcome = "text"  -> <<AI_TEXT>>
      [] outcome = "note"  -> note
      [] outcome = "raise" -> note

\* engine.py:529-636: from the indicator frame to the returned record;
\* df_ind.iloc[-1] raises IndexError on an empty frame.
classify_body(ticker, df_ind, swing_low, outcome) ==
    IF Len(df_ind) = 0
    THEN [kind |-> "raised", error |-> "IndexError"]
    ELSE LET d == decide(df_ind, swing_low)
         IN  [kind          |-> "result",
              ticker        |-> Upper(ticker),
              status        |-> d.status,
              emoji         |-> d.emoji,
              price         |-> Latest(df_ind).Close,
              note          |-> d.note_parts,
              ai_commentary |-> ai_commentary_of(outcome, d.note_parts),
              as_of         |-> Latest(df_ind).t]

-----------------------------------------------------------------------------
(* TTLCache and the cached_classification wrapper, utils/cache.py          *)

\* Python's None
None == NoResult

\* cache.py:41  self.cache = {}
EmptyCache == [k \in {} |-> None]

\* a get that expires an entry as soon as its age reaches the ttl
ttl_get_at_least(c, ttl, key, t) ==
    IF key \notin DOMAIN c
    THEN [value |-> None, cache |-> c]
    ELSE IF t - c[key].timestamp >= ttl
    THEN [value |-> None, cache |-> [k \in DOMAIN c \ {key} |-> c[k]]]
    ELSE [value |-> c[key].value, cache |-> c]

\* cache.py:44-54  TTLCache.get: the value it returns and the dictionary it
\* leaves (an expired entry is deleted)
ttl_get(c, ttl, key, t) ==
    IF key \notin DOMAIN c
    THEN [value |-> None, cache |-> c]
    ELSE IF t - c[key].timestamp > ttl
    THEN [value |-> None, cache |-> [k \in DOMAIN c \ {key} |-> c[k]]]
    ELSE [value |-> c[key].value, cache |-> c]

\* cache.py:56-58  TTLCache.set
ttl_set(c, key, value, t) ==
    [k \in DOMAIN c \cup {key} |->
        IF k = key THEN [value |-> value, timestamp |-> t] ELSE c[k]]

\* a key without the ticker: every call shares one entry
cache_key_shared(ticker) == <<"classify_ticker", "">>

\* cache.py:152-153  f"{func.__name__}:{ticker.upper()}"
cache_key(ticker) == <<"classify_ticker", Upper(ticker)>>

-----------------------------------------------------------------------------
(* The inputs of the model *)

\* An indicator frame of Len(highs) rows.  closes holds one more bar than the
\* frame: the last warm-up bar, whose close gives the first row's momentum
\* (momentum = close.diff(), engine.py:398).  Only the latest row's sma_200
\* and high_20 are read, so every row carries the same ones.
Frame(closes, highs, rsis, sma, h20) ==
    [i \in 1..Len(highs) |->
        [t        |-> i,
         Close    |-> closes[i + 1],
         High     |-> highs[i],
         sma_200  |-> sma,
         high_20  |-> h20,
         rsi_14   |-> rsis[i],
         momentum |-> closes[i + 1] - closes[i]]]

Frames(n) ==
    {Frame(closes, highs, rsis, sma, h20) :
        closes \in [1..(n + 1) -> Prices], highs \in [1..n -> Highs],
        rsis \in [1..n -> RsiValues], sma \in Prices, h20 \in Prices}

-----------------------------------------------------------------------------
(* The classifier alone: one call after another on arbitrary frames *)

InitCore ==
    /\ pc = "idle"
    /\ close = 0 /\ sma_200 = 0 /\ high_20 = 0
    /\ momentum = 0 /\ prev_momentum = 0
    /\ last_swing_low_price = 0
    /\ fib_check = FALSE /\ div_check = FALSE
    /\ rows = 0
    /\ commentary = "none"
    /\ result = NoResult
    /\ cache = EmptyCache
    /\ now = 0
    /\ args = NoResult

\* the components added after the batch: nothing cached, nothing called
InitMore ==
    /\ dcache = EmptyCache
    /\ cf = NoResult /\ rs = NoResult /\ sp = NoResult /\ rx = NoResult
    /\ tt = NoResult /\ io = NoResult /\ tc = NoResult

Init ==
    /\ InitCore
    /\ sw = NoResult /\ dv = NoResult /\ sn = NoResult /\ ci = NoResult
    /\ ft = NoResult /\ th = << >> /\ out = << >>
    /\ InitMore

Classify ==
    /\ pc = "idle"
    /\ \E n \in 0..MaxRows, ticker \in Tickers, swing_low \in Prices,
          outcome \in CommentaryOutcomes :
         \E df_ind \in Frames(n) :
            LET r == classify_body(ticker, df_ind, swing_low, outcome)
            IN  /\ result' = r
                /\ rows' = Len(df_ind)
                /\ last_swing_low_price' = swing_low
                /\ IF r.kind = "raised"
                   THEN /\ pc' = "raised"
                        /\ UNCHANGED <<close, sma_200, high_20, momentum,
                                       prev_momentum, fib_check, div_check,
                                       commentary, moreVars>>
                   ELSE /\ pc' = "returned"
                        /\ close' = Latest(df_ind).Close
                        /\ sma_200' = Latest(df_ind).sma_200
                        /\ high_20' = Latest(df_ind).high_20
                        /\ momentum' = Latest(df_ind).momentum
                        /\ prev_momentum' = Prev(df_ind).momentum
                        /\ fib_check' = fib_test(Latest(df_ind).Close,
                                                 swing_high_of(df_ind), swing_low)
                        /\ div_check' = divergence_test(df_ind, swing_low)
                        /\ commentary' = outcome
    /\ UNCHANGED <<cache, now, args, pureVars, moreVars>>

\* the caller takes the result (or the error) and is ready for the next call
NextCall ==
    /\ pc \in {"returned", "raised"}
    /\ pc' = "idle"
    /\ close' = 0 /\ sma_200' = 0 /\ high_20' = 0
    /\ momentum' = 0 /\ prev_momentum' = 0
    /\ last_swing_low_price' = 0
    /\ fib_check' = FALSE /\ div_check' = FALSE
    /\ rows' = 0
    /\ commentary' = "none"
    /\ result' = NoResult
    /\ UNCHANGED <<cache, now, args, pureVars, moreVars>>

Next == Classify \/ NextCall

Spec == Init /\ [][Next]_vars

-----------------------------------------------------------------------------
(* The classifier behind its cache: classify_ticker as callers import it.  *)
(* A call's series is given by what the body derives from it: the          *)
(* indicator frame and the support level.                                  *)

\* frames the cached calls are made with: the empty one, on which the body
\* raises, and three that end in different branches of the decision tree
CacheFrames ==
    {<< >>,
     Frame(<<10, 20>>, <<20>>, <<40>>, 14, 20),
     Frame(<<20, 10>>, <<14>>, <<20>>, 14, 20),
     Frame(<<20, 14>>, <<20>>, <<40>>, 14, 20)}

CacheSupports == {10, 14}

\* cache.py:150-161  wrapper(*args, **kwargs)
CachedClassify ==
    /\ pc = "idle"
    /\ \E ticker \in Tickers, df_ind \in CacheFrames, swing_low \in CacheSupports,
          outcome \in {"text", "raise"} :
         LET got == ttl_get(cache, CLASS_CACHE_TTL, cache_key(ticker), now)
             r   == classify_body(ticker, df_ind, swing_low, outcome)
         IN  /\ args' = [ticker |-> ticker, df_ind |-> df_ind,
                         swing_low |-> swing_low, outcome |-> outcome]
             /\ IF got.value # None
                THEN /\ result' = got.value
                     /\ cache' = got.cache
                     /\ pc' = "returned"
                ELSE IF r.kind = "raised"
                THEN /\ result' = r
                     /\ cache' = got.cache
                     /\ pc' = "raised"
                ELSE /\ result' = r
                     /\ cache' = ttl_set(got.cache, cache_key(ticker), r, now)
                     /\ pc' = "returned"
    /\ UNCHANGED <<close, sma_200, high_20, momentum, prev_momentum,
                   last_swing_low_price, fib_check, div_check, rows,
                   commentary, now, pureVars, moreVars>>

\* the caller takes the result (or the error)
CachedReturn ==
    /\ pc \in {"returned", "raised"}
    /\ pc' = "idle"
    /\ result' = NoResult
    /\ args' = NoResult
    /\ UNCHANGED <<close, sma_200, high_20, momentum, prev_momentum,
                   last_swing_low_price, fib_check, div_check, rows,
                   commentary, cache, now, pureVars, moreVars>>

\* time passes between calls
Tick ==
    /\ pc = "idle"
    /\ now < MaxNow
    /\ \E d \in Delays : now' = now + d
    /\ UNCHANGED <<coreVars, result, cache, args, pureVars, moreVars>>

\* cache.py:181-184  clear_all_caches (app.py:616)
ClearAllCaches ==
    /\ pc = "idle"
    /\ cache # EmptyCache
    /\ cache' = EmptyCache
    /\ UNCHANGED <<coreVars, result, now, args, pureVars, moreVars>>

NextCache == CachedClassify \/ CachedReturn \/ Tick \/ ClearAllCaches

SpecCache == Init /\ [][NextCache]_vars

-----------------------------------------------------------------------------
(* A watchlist batch, app.py:396-443: one worker thread per ticker runs     *)
(* _classify_ticker_safe, which calls classify_ticker(ticker) through its   *)
(* cache wrapper; the main thread collects the rows as the futures finish.  *)

\* watchlist tickers are stored in upper case (database/models.py:145)
BatchTickers == {"AAPL", "MSFT", "TSLA"}

\* what the data provider has for a ticker: nothing (fetch_ohlcv raises), or
\* a series, given by its indicator frame and support level
Feeds ==
    {[kind |-> "fail"],
     [kind |-> "data", df_ind |-> << >>, swing_low |-> 10],
     [kind |-> "data", df_ind |-> Frame(<<10, 20>>, <<20>>, <<40>>, 14, 20),
      swing_low |-> 10],
     [kind |-> "data", df_ind |-> Frame(<<20, 10>>, <<14>>, <<20>>, 14, 20),
      swing_low |-> 14]}

\* engine.py:514-636: classify_ticker(ticker) on what the provider has
classify_fetched(ticker, feed, outcome) ==
    IF feed.kind = "fail"
    THEN [kind |-> "raised", error |-> "ValueError"]
    ELSE classify_body(ticker, feed.df_ind, feed.swing_low, outcome)

\* _classify_ticker_safe without its try/except: the error leaves the worker
safe_row_unguarded(ticker, r) ==
    IF r.kind = "result"
    THEN [Ticker |-> r.ticker, Price |-> r.price, Status |-> <<r.emoji, r.status>>,
          AI |-> IF r.ai_commentary # << >> THEN r.ai_commentary ELSE r.note,
          Note |-> r.note, AsOf |-> r.as_of]
    ELSE [Ticker |-> ticker, Status |-> <<"", "propagated">>, AI |-> r.error]

\* app.py:396-416  _classify_ticker_safe: the row of a result, or of an error
safe_row(ticker, r) ==
    IF r.kind = "result"
    THEN [Ticker |-> r.ticker, Price |-> r.price, Status |-> <<r.emoji, r.status>>,
          AI |-> IF r.ai_commentary # << >> THEN r.ai_commentary ELSE r.note,
          Note |-> r.note, AsOf |-> r.as_of]
    ELSE [Ticker |-> ticker, Price |-> "N/A", Status |-> <<"cross", "Error">>,
          AI |-> <<"Failed to classify", r.error>>,
          Note |-> <<"Error", r.error>>, AsOf |-> "now_str"]

InitBatch ==
    /\ InitCore
    /\ sw = NoResult /\ dv = NoResult /\ sn = NoResult /\ ci = NoResult
    /\ ft = NoResult
    /\ th \in [BatchTickers -> [pc : {"off"}, feed : Feeds, res : {None}, row : {None}]]
    /\ out = [main |-> "idle", rows |-> << >>]
    /\ InitMore

\* app.py:419-432: the batch starts, one future per watchlist ticker
StartBatch ==
    /\ out.main \in {"idle", "done"}
    /\ \E watchlist \in SUBSET BatchTickers :
         /\ watchlist # {}
         /\ th' = [t \in BatchTickers |->
                     IF t \in watchlist
                     THEN [th[t] EXCEPT !.pc = "get", !.res = None, !.row = None]
                     ELSE [th[t] EXCEPT !.pc = "off", !.res = None, !.row = None]]
    /\ out' = [main |-> "running", rows |-> << >>]
    /\ UNCHANGED <<coreVars, result, cache, now, args, sw, dv, sn, ci, ft, moreVars>>

\* cache.py:152-157: the wrapper looks the ticker up
WorkerGet(t) ==
    /\ th[t].pc = "get"
    /\ LET got == ttl_get(cache, CLASS_CACHE_TTL, cache_key(t), now)
       IN  /\ cache' = got.cache
           /\ th' = [th EXCEPT ![t].res = got.value,
                               ![t].pc = IF got.value # None THEN "row" ELSE "body"]
    /\ UNCHANGED <<coreVars, result, now, args, sw, dv, sn, ci, ft, out, moreVars>>

\* cache.py:159: result = func(*args, **kwargs)
WorkerBody(t) ==
    /\ th[t].pc = "body"
    /\ \E outcome \in {"text", "raise"} :
         LET r == classify_fetched(t, th[t].feed, outcome)
         IN  th' = [th EXCEPT ![t].res = r,
                              ![t].pc = IF r.kind = "raised" THEN "row" ELSE "set"]
    /\ UNCHANGED <<coreVars, result, cache, now, args, sw, dv, sn, ci, ft, out, moreVars>>

\* cache.py:160-161: cache.set(cache_key, result); return result
WorkerSet(t) ==
    /\ th[t].pc = "set"
    /\ cache' = ttl_set(cache, cache_key(t), th[t].res, now)
    /\ th' = [th EXCEPT ![t].pc = "row"]
    /\ UNCHANGED <<coreVars, result, now, args, sw, dv, sn, ci, ft, out, moreVars>>

\* app.py:398-416: the worker builds its row and the future is finished
WorkerRow(t) ==
    /\ th[t].pc = "row"
    /\ th' = [th EXCEPT ![t].row = safe_row(t, th[t].res), ![t].pc = "finished"]
    /\ UNCHANGED <<coreVars, result, cache, now, args, sw, dv, sn, ci, ft, out, moreVars>>

\* app.py:434-437 (and 442): rows.append(future.result()); result() raises
\* what the worker raised, which ends the batch
Collect(t) ==
    /\ out.main = "running"
    /\ th[t].pc = "finished"
    /\ th' = [th EXCEPT ![t].pc = "collected"]
    /\ LET rows_ == IF th[t].row.Status = <<"", "propagated">>
                    THEN out.rows ELSE Append(out.rows, th[t].row)
           left  == {u \in BatchTickers : u # t /\ th[u].pc \notin {"off", "collected"}}
       IN  out' = [main |-> IF th[t].row.Status = <<"", "propagated">> THEN "aborted"
                            ELSE IF left = {} THEN "done" ELSE "running",
                   rows |-> rows_]
    /\ UNCHANGED <<coreVars, result, cache, now, args, sw, dv, sn, ci, ft, moreVars>>

Worker == \E t \in BatchTickers : WorkerGet(t) \/ WorkerBody(t) \/ WorkerSet(t) \/ WorkerRow(t)

Collector == \E t \in BatchTickers : Collect(t)

NextBatch == StartBatch \/ Worker \/ Collector

SpecBatch == InitBatch /\ [][NextBatch]_vars

\* the pool runs every submitted future (app.py:430-432) and as_completed
\* hands over every finished one (app.py:434)
SpecBatchFair == SpecBatch /\ WF_vars(Worker) /\ WF_vars(Collector)

-----------------------------------------------------------------------------
(* The swing-low detector, engine.py:234-329.  lows is the Low column of    *)
(* the weekly frame; a position p is a 0-based position as in the code, so  *)
(* lows[p + 1] is the low at position p.  A prominence is [set |-> FALSE]   *)
(* (None) or [set |-> TRUE, pct |-> percent].                               *)

SetMin(S) == CHOOSE m \in S : \A x \in S : m <= x

At(lows, p) == lows[p + 1]

\* numpy lows[a:b]: the positions of the slice (clipped to the array)
Slice(lows, a, b) == {p \in 0..(Len(lows) - 1) : a <= p /\ p < b}

RECURSIVE SumAt(_, _)
SumAt(lows, P) ==
    IF P = {} THEN 0
    ELSE LET p == CHOOSE x \in P : TRUE
         IN  At(lows, p) + SumAt(lows, P \ {p})

\* engine.py:279  past = lows[i - lookback : i]
past(lows, i, lookback) == Slice(lows, i - lookback, i)

\* engine.py:280  future = lows[i + 1 : i + 1 + lookback]
future(lows, i, lookback) == Slice(lows, i + 1, i + 1 + lookback)

\* a local minimum that admits ties
is_local_min_le(lows, i, lookback) ==
    /\ At(lows, i) <= SetMin({At(lows, p) : p \in past(lows, i, lookback)})
    /\ At(lows, i) <= SetMin({At(lows, p) : p \in future(lows, i, lookback)})

\* engine.py:283-284  lows[i] < past_min and lows[i] < future_min
is_local_min(lows, i, lookback) ==
    /\ At(lows, i) < SetMin({At(lows, p) : p \in past(lows, i, lookback)})
    /\ At(lows, i) < SetMin({At(lows, p) : p \in future(lows, i, lookback)})

\* a filter that also drops a bar whose depth equals the prominence
is_prominent_strict(lows, i, lookback, prominence) ==
    IF ~prominence.set THEN TRUE
    ELSE LET window == Slice(lows, i - lookback, i + 1 + lookback)
             s      == SumAt(lows, window)
             k      == Cardinality(window)
         IN  (s - k * At(lows, i)) * 100 > prominence.pct * s

\* engine.py:290-298: the bar is kept unless drawdown_pct < prominence, where
\* drawdown_pct = (local_mean - lows[i]) / local_mean * 100 and local_mean is
\* the mean of lows[i - lookback : i + 1 + lookback]; with k bars of positive
\* sum s the test drawdown_pct < pct is (s - k * low) * 100 < pct * s
is_prominent(lows, i, lookback, prominence) ==
    IF ~prominence.set THEN TRUE
    ELSE LET window == Slice(lows, i - lookback, i + 1 + lookback)
             s      == SumAt(lows, window)
             k      == Cardinality(window)
         IN  ~((s - k * At(lows, i)) * 100 < prominence.pct * s)

\* engine.py:277-300: the loop for i in range(lookback, n - lookback)
RECURSIVE swing_loop(_, _, _, _, _)
swing_loop(lows, lookback, prominence, i, swing_mask) ==
    IF i >= Len(lows) - lookback THEN swing_mask
    ELSE swing_loop(lows, lookback, prominence, i + 1,
            IF /\ is_local_min(lows, i, lookback)
               /\ is_prominent(lows, i, lookback, prominence)
            THEN [swing_mask EXCEPT ![i] = TRUE]
            ELSE swing_mask)

\* engine.py:264-305: the swing_low column, by position
find_major_weekly_swing_lows(lows, lookback, prominence) ==
    LET n     == Len(lows)
        zeros == [p \in 0..(n - 1) |-> FALSE]
    IN  IF n < 2 * lookback + 1 THEN zeros
        ELSE swing_loop(lows, lookback, prominence, lookback, zeros)

\* the oldest flagged bar instead of the latest, the whole series for the fallback
get_first_major_swing_low(lows, swing_low) ==
    LET swings == {p \in DOMAIN swing_low : swing_low[p]}
    IN  IF swings # {} THEN [kind |-> "float", value |-> At(lows, SetMin(swings))]
        ELSE IF Len(lows) = 0 THEN [kind |-> "nan"]
        ELSE [kind |-> "float", value |-> SetMin({lows[i] : i \in 1..Len(lows)})]

\* engine.py:324-329  get_last_major_swing_low; the minimum of an empty
\* column is NaN
get_last_major_swing_low(lows, swing_low) ==
    LET swings == {p \in DOMAIN swing_low : swing_low[p]}
    IN  IF swings # {} THEN [kind |-> "float", value |-> At(lows, SetMax(swings))]
        ELSE IF Len(lows) = 0 THEN [kind |-> "nan"]
        ELSE [kind |-> "float",
              value |-> SetMin({lows[i] : i \in TailIdx(lows, SUPPORT_TAIL)})]

\* the series of the model: every series of at most MaxWeeks bars, and series
\* that end in SUPPORT_TAIL equal bars after a short head
LongSeries ==
    {head \o [i \in 1..SUPPORT_TAIL |-> 10] :
        head \in {<<9>>, <<11, 9>>, <<9, 11>>, <<9, 10, 11>>}}

LowSeries == UNION {[1..n -> LowValues] : n \in 0..MaxWeeks} \cup LongSeries

Lookbacks == {1, 2}

Prominences == {[set |-> FALSE], [set |-> TRUE, pct |-> 3], [set |-> TRUE, pct |-> 10]}

\* engine.py:522-526: the detector is run and the support level is read
FindSwingLows ==
    /\ sw = NoResult
    /\ \E lows \in LowSeries, lookback \in Lookbacks, prominence \in Prominences :
         LET swing_low == find_major_weekly_swing_lows(lows, lookback, prominence)
         IN  sw' = [kind |-> "result", lows |-> lows, lookback |-> lookback,
                    prominence |-> prominence, swing_low |-> swing_low,
                    support |-> get_last_major_swing_low(lows, swing_low)]
    /\ UNCHANGED <<coreVars, result, cache, now, args, dv, sn, ci, ft, th, out, moreVars>>

\* the caller takes the support level
SwingReturn ==
    /\ sw # NoResult
    /\ sw' = NoResult
    /\ UNCHANGED <<coreVars, result, cache, now, args, dv, sn, ci, ft, th, out, moreVars>>

NextSwing == FindSwingLows \/ SwingReturn

SpecSwing == Init /\ [][NextSwing]_vars

-----------------------------------------------------------------------------
(* The divergence detector called on its own *)

DivRows == [Close : DivCloses, rsi_14 : DivRsis]

DivFrames == UNION {[1..n -> DivRows] : n \in 0..MaxBars}

\* engine.py:404-474: one call
CheckDivergence ==
    /\ dv = NoResult
    /\ \E df \in DivFrames, lookback_bars \in DivWindows :
         dv' = [kind |-> "result", df |-> df, swing_low_price |-> 10,
                lookback_bars |-> lookback_bars,
                value |-> check_hidden_bullish_divergence(
                              df, 10, OVERSOLD_LEVEL, lookback_bars)]
    /\ UNCHANGED <<coreVars, result, cache, now, args, sw, sn, ci, ft, th, out, moreVars>>

\* the caller takes the answer
DivReturn ==
    /\ dv # NoResult
    /\ dv' = NoResult
    /\ UNCHANGED <<coreVars, result, cache, now, args, sw, sn, ci, ft, th, out, moreVars>>

NextDiv == CheckDivergence \/ DivReturn

SpecDiv == Init /\ [][NextDiv]_vars

-----------------------------------------------------------------------------
(* The classifier on frames longer than its two windows.  A long frame has  *)
(* one head row (the oldest), then equal body rows, then the latest row;    *)
(* the head row falls inside or outside the trailing 60 and 80 rows         *)
(* according to the length of the frame.  Support is 100.                   *)

LongLens == {FIB_WINDOW, FIB_WINDOW + 1, DIV_LOOKBACK, DIV_LOOKBACK + 1}

LongFrame(n, c, head_high, body_high, head_rsi, last_rsi, h20) ==
    [i \in 1..n |->
        [t        |-> i,
         Close    |-> IF i = 1 THEN 100 ELSE c,
         High     |-> IF i = 1 THEN head_high ELSE body_high,
         sma_200  |-> 150,
         high_20  |-> h20,
         rsi_14   |-> IF i = 1 THEN head_rsi ELSE IF i = n THEN last_rsi ELSE 40,
         momentum |-> IF i = 2 THEN c - 100 ELSE 0]]

LongFrames ==
    {LongFrame(n, c, head_high, body_high, head_rsi, last_rsi, h20) :
        n \in LongLens, c \in {102, 140}, head_high \in {100, 200, 300},
        body_high \in {100, 160, 200}, head_rsi \in {20, 40},
        last_rsi \in {25, 40}, h20 \in {101, 150}}

\* engine.py:528-636 on a long frame
ClassifyLong ==
    /\ sn = NoResult
    /\ \E df_ind \in LongFrames :
         sn' = [kind |-> "result", df_ind |-> df_ind, swing_low |-> 100,
                result |-> classify_body("AAPL", df_ind, 100, "text")]
    /\ UNCHANGED <<coreVars, result, cache, now, args, sw, dv, ci, ft, th, out, moreVars>>

\* the caller takes the result
LongReturn ==
    /\ sn # NoResult
    /\ sn' = NoResult
    /\ UNCHANGED <<coreVars, result, cache, now, args, sw, dv, ci, ft, th, out, moreVars>>

NextLong == ClassifyLong \/ LongReturn

SpecLong == Init /\ [][NextLong]_vars

-----------------------------------------------------------------------------
(* compute_indicators, engine.py:332-401.  df_daily is the sequence of its  *)
(* rows [Close, High]; a cell of an indicator column is NaN or a value.     *)
(* The oscillator is computed by talib.RSI when the library could be        *)
(* imported (engine.py:34-40) and by _calculate_rsi_pandas otherwise.       *)

NaN == [nan |-> TRUE]

\* the rows of a rolling window of the given length that ends at row i
RollIdx(i, window) == {j \in 1..i : j > i - window}

RECURSIVE SumOver(_, _)
SumOver(f, S) ==
    IF S = {} THEN 0
    ELSE LET x == CHOOSE y \in S : TRUE IN f[x] + SumOver(f, S \ {x})

\* engine.py:398, 347  close.diff(): NaN on the first row
diff(df, i) ==
    IF i = 1 THEN NaN ELSE [nan |-> FALSE, v |-> df[i].Close - df[i - 1].Close]

\* engine.py:383  close.rolling(window=200, min_periods=50).mean()
sma_200_at(df, i) ==
    LET w == RollIdx(i, SMA_WINDOW)
    IN  IF Cardinality(w) < SMA_MIN_PERIODS THEN NaN
        ELSE [nan |-> FALSE,
              sum |-> SumOver([j \in w |-> df[j].Close], w),
              count |-> Cardinality(w)]

\* engine.py:386  high.rolling(window=20, min_periods=5).max()
high_20_at(df, i) ==
    LET w == RollIdx(i, HIGH_WINDOW)
    IN  IF Cardinality(w) < HIGH_MIN_PERIODS THEN NaN
        ELSE [nan |-> FALSE, v |-> SetMax({df[j].High : j \in w})]

\* engine.py:348  delta.where(delta > 0, 0): the NaN of the first row is
\* not > 0 and becomes 0
gain_at(df, j) ==
    IF diff(df, j).nan THEN 0
    ELSE IF diff(df, j).v > 0 THEN diff(df, j).v ELSE 0

\* engine.py:349  -delta.where(delta < 0, 0)
loss_at(df, j) ==
    IF diff(df, j).nan THEN 0
    ELSE IF diff(df, j).v < 0 THEN -diff(df, j).v ELSE 0

\* engine.py:347-353  _calculate_rsi_pandas.  With g and l the sums of the
\* window's gains and losses, rs = g / l: 0 / 0 is NaN, g / 0 is inf and
\* gives 100, and otherwise rsi = 100 - 100 / (1 + g / l) = 100 * g / (g + l),
\* kept as the fraction num / den
calculate_rsi_pandas(df, i) ==
    LET w == RollIdx(i, RSI_PERIOD)
        g == SumOver([j \in w |-> gain_at(df, j)], w)
        l == SumOver([j \in w |-> loss_at(df, j)], w)
    IN  IF Cardinality(w) < RSI_PERIOD THEN NaN
        ELSE IF g = 0 /\ l = 0 THEN NaN
        ELSE [nan |-> FALSE, num |-> 100 * g, den |-> g + l]

\* engine.py:391  talib.RSI(close, timeperiod=14): the library leaves the
\* first 14 rows NaN and gives a value on every later row
talib_RSI(df, i) ==
    IF i <= RSI_PERIOD THEN NaN ELSE [nan |-> FALSE, lib |-> TRUE]

\* engine.py:376-399  df_daily.assign(...): row i with its four indicators
assign_row(df, i, HAS_TALIB) ==
    [t        |-> i,
     Close    |-> df[i].Close,
     High     |-> df[i].High,
     sma_200  |-> sma_200_at(df, i),
     high_20  |-> high_20_at(df, i),
     rsi_14   |-> IF HAS_TALIB THEN talib_RSI(df, i) ELSE calculate_rsi_pandas(df, i),
     momentum |-> diff(df, i)]

has_no_nan(row) ==
    ~row.sma_200.nan /\ ~row.high_20.nan /\ ~row.rsi_14.nan /\ ~row.momentum.nan

\* engine.py:376-401  compute_indicators: assign, then df.dropna()
compute_indicators(df, HAS_TALIB) ==
    SelectSeq([i \in 1..Len(df) |-> assign_row(df, i, HAS_TALIB)], has_no_nan)

\* the daily series of the model, by shape and length; the High is one
\* above the Close
DayLens == {0, 1, 5, 14, 15, 16, 49, 50, 51, 60, 63, 64, 65, 66}

DayShapes == {"flat", "rising", "falling", "zigzag", "tail14", "tail15", "tail16"}

DayClose(shape, n, i) ==
    CASE shape = "flat"    -> 10
      [] shape = "rising"  -> 10 + i
      [] shape = "falling" -> 100 - i
      [] shape = "zigzag"  -> 10 + (i % 2)
      [] shape = "tail14"  -> IF i > n - 14 THEN 10 ELSE 10 + (i % 2)
      [] shape = "tail15"  -> IF i > n - 15 THEN 10 ELSE 10 + (i % 2)
      [] shape = "tail16"  -> IF i > n - 16 THEN 10 ELSE 10 + (i % 2)

DaySeries(shape, n) ==
    [i \in 1..n |-> [Close |-> DayClose(shape, n, i), High |-> DayClose(shape, n, i) + 1]]

\* engine.py:529  df_ind = compute_indicators(df_daily)
ComputeIndicators ==
    /\ ci = NoResult
    /\ \E shape \in DayShapes, n \in DayLens, HAS_TALIB \in BOOLEAN :
         LET df_daily == DaySeries(shape, n)
         IN  ci' = [kind |-> "result", df_daily |-> df_daily,
                    HAS_TALIB |-> HAS_TALIB,
                    df_ind |-> compute_indicators(df_daily, HAS_TALIB)]
    /\ UNCHANGED <<coreVars, result, cache, now, args, sw, dv, sn, ft, th, out, moreVars>>

\* the caller takes the frame
IndicatorsReturn ==
    /\ ci # NoResult
    /\ ci' = NoResult
    /\ UNCHANGED <<coreVars, result, cache, now, args, sw, dv, sn, ft, th, out, moreVars>>

NextInd == ComputeIndicators \/ IndicatorsReturn

SpecInd == Init /\ [][NextInd]_vars

-----------------------------------------------------------------------------
(* fetch_ohlcv, engine.py:91-197 (the body under its data cache).  A frame  *)
(* is [rows, valid]: its number of rows and how many of them have no NaN.   *)
(* ft.log lists what the call did: provider calls with what they gave, and *)
(* sleeps with their length.                                                *)

\* what yf.download may do: give a frame, give None, or raise
Downloads ==
    {[kind |-> "df", rows |-> 0, valid |-> 0],
     [kind |-> "df", rows |-> 2, valid |-> 0],
     [kind |-> "df", rows |-> 2, valid |-> 1],
     [kind |-> "df", rows |-> 2, valid |-> 2],
     [kind |-> "none"],
     [kind |-> "error", cls |-> "JSONDecodeError"],
     [kind |-> "error", cls |-> "KeyError"],
     [kind |-> "error", cls |-> "ConnectionError"]}

\* what fetch_ohlcv_rapidapi may do
RapidOutcomes ==
    {[kind |-> "df", rows |-> 2, valid |-> 2],
     [kind |-> "df", rows |-> 0, valid |-> 0],
     [kind |-> "none"],
     [kind |-> "error", cls |-> "ConnectionError"]}

\* a retry test that also lets the last attempt sleep and go on
may_retry_always(attempt) == attempt < max_retries

\* engine.py:143, 159, 172, 179, 189, 193  if attempt < max_retries - 1
may_retry(attempt) == attempt < max_retries - 1

\* every failure of an attempt ends the same way: sleep and continue, or
\* raise ValueError (directly, or from the handlers of lines 166-195, which
\* also catch the ValueError raised at 146 and 162)
retry_or_raise(attempt) ==
    IF may_retry(attempt)
    THEN [exit |-> "continue", sleep |-> retry_delay * (attempt + 1)]
    ELSE [exit |-> "raise", error |-> "ValueError"]

\* engine.py:107-195: one iteration of the loop on what the download did
iteration(d, attempt) ==
    IF d.kind = "error" THEN retry_or_raise(attempt)       \* 166-195
    ELSE IF d.kind = "none" THEN retry_or_raise(attempt)   \* df.empty: AttributeError
    ELSE IF d.rows = 0 THEN retry_or_raise(attempt)        \* 142-150
    ELSE IF d.valid = 0 THEN retry_or_raise(attempt)       \* 157-162
    ELSE [exit |-> "return", df |-> [rows |-> d.valid]]    \* 164

\* the caller calls fetch_ohlcv(ticker, use_rapidapi=...)
FetchCall ==
    /\ ft = NoResult
    /\ \E use_rapidapi \in BOOLEAN :
         ft' = [kind |-> "call", use_rapidapi |-> use_rapidapi,
                pc |-> IF use_rapidapi THEN "rapidapi" ELSE "loop",
                attempt |-> 0, log |-> << >>, ret |-> None]
    /\ UNCHANGED <<coreVars, result, cache, now, args, sw, dv, sn, ci, th, out, moreVars>>

\* a test that takes any frame of the provider, empty or not
rapidapi_gave_frame(r) == r.kind = "df"

\* engine.py:100  if df_rapidapi is not None and not df_rapidapi.empty
\* (an exception of the provider skips the test, engine.py:102-104)
rapidapi_gave_data(r) == r.kind = "df" /\ r.rows > 0

\* engine.py:95-104: the RapidAPI provider is tried first
RapidApi ==
    /\ ft.kind = "call" /\ ft.pc = "rapidapi"
    /\ \E r \in RapidOutcomes :
         ft' = IF rapidapi_gave_data(r)
               THEN [ft EXCEPT !.pc = "returned",
                               !.log = Append(@, [op |-> "rapidapi", got |-> r]),
                               !.ret = [rows |-> r.rows]]
               ELSE [ft EXCEPT !.pc = "loop",
                               !.log = Append(@, [op |-> "rapidapi", got |-> r])]
    /\ UNCHANGED <<coreVars, result, cache, now, args, sw, dv, sn, ci, th, out, moreVars>>

\* engine.py:106-197: one attempt of for attempt in range(max_retries); when
\* the loop runs out the function raises at line 197
Attempt ==
    /\ ft.kind = "call" /\ ft.pc = "loop"
    /\ ft.attempt < max_retries
    /\ \E d \in Downloads :
         LET it == iteration(d, ft.attempt)
         IN  ft' = CASE it.exit = "return" ->
                         [ft EXCEPT !.pc = "returned", !.ret = it.df,
                                    !.log = Append(@, [op |-> "download", got |-> d])]
                     [] it.exit = "raise" ->
                         [ft EXCEPT !.pc = "raised", !.ret = [error |-> it.error],
                                    !.log = Append(@, [op |-> "download", got |-> d])]
                     [] it.exit = "continue" ->
                         [ft EXCEPT !.attempt = @ + 1,
                                    !.log = @ \o <<[op |-> "download", got |-> d],
                                                    [op |-> "sleep", s |-> it.sleep]>>,
                                    !.pc = IF ft.attempt + 1 < max_retries
                                           THEN "loop" ELSE "raised",
                                    !.ret = IF ft.attempt + 1 < max_retries
                                            THEN None ELSE [error |-> "ValueError"]]
    /\ UNCHANGED <<coreVars, result, cache, now, args, sw, dv, sn, ci, th, out, moreVars>>

\* the caller takes the series or the error
FetchReturn ==
    /\ ft.kind = "call" /\ ft.pc \in {"returned", "raised"}
    /\ ft' = NoResult
    /\ UNCHANGED <<coreVars, result, cache, now, args, sw, dv, sn, ci, th, out, moreVars>>

NextFetch == FetchCall \/ RapidApi \/ Attempt \/ FetchReturn

SpecFetch == Init /\ [][NextFetch]_vars

\* a provider call that was started comes back (with a frame or an error)
SpecFetchFair == SpecFetch /\ WF_vars(RapidApi) /\ WF_vars(Attempt)

-----------------------------------------------------------------------------
(* classify_ticker(ticker) with its two caches: the classification wrapper  *)
(* (cache.py:149-161) around the body, whose first step is fetch_ohlcv      *)
(* under the data wrapper (cache.py:112-122).  One caller, one call at a    *)
(* time; cf keeps the latest call and what the call before it was.          *)

\* cache.py:114  f"{func.__name__}:{_make_cache_key(*args, **kwargs)}": the
\* digest of the pickled arguments, here the ticker as it was passed
data_key(ticker) == <<"fetch_ohlcv", ticker>>

\* a data wrapper that remembers a failed fetch
data_fetch_keeping_errors(dc, ticker, feed, t) ==
    LET got == ttl_get(dc, DATA_CACHE_TTL, data_key(ticker), t)
    IN  IF got.value # None
        THEN [raised |-> got.value.kind = "fail", fetched |-> FALSE,
              df |-> got.value, cache |-> got.cache]
        ELSE [raised |-> feed.kind = "fail", fetched |-> TRUE, df |-> feed,
              cache |-> ttl_set(got.cache, data_key(ticker), feed, t)]

\* cache.py:112-122 around engine.py:91-197: the series for the ticker, from
\* the data cache or from the providers; a fetch that raises stores nothing
data_fetch(dc, ticker, feed, t) ==
    LET got == ttl_get(dc, DATA_CACHE_TTL, data_key(ticker), t)
    IN  IF got.value # None
        THEN [raised |-> FALSE, fetched |-> FALSE, df |-> got.value,
              cache |-> got.cache]
        ELSE IF feed.kind = "fail"
        THEN [raised |-> TRUE, fetched |-> TRUE, df |-> None, cache |-> got.cache]
        ELSE [raised |-> FALSE, fetched |-> TRUE, df |-> feed,
              cache |-> ttl_set(got.cache, data_key(ticker), feed, t)]

FetchTickers == {"AAPL", "MSFT"}

\* what the providers have at the time of a call: nothing, a series too
\* short for an indicator row, a series that classifies
FetchFeeds ==
    {[kind |-> "fail"],
     [kind |-> "data", df_ind |-> << >>, swing_low |-> 10],
     [kind |-> "data", df_ind |-> Frame(<<10, 20>>, <<20>>, <<40>>, 14, 20),
      swing_low |-> 10]}

\* cache.py:150-161 around engine.py:514-636: one call of classify_ticker
ClassifyFetching ==
    /\ \E ticker \in FetchTickers, feed \in FetchFeeds, outcome \in {"text"} :
         LET got  == ttl_get(cache, CLASS_CACHE_TTL, cache_key(ticker), now)
             f    == data_fetch(dcache, ticker, feed, now)
             r    == classify_body(ticker, f.df.df_ind, f.df.swing_low, outcome)
             prev == IF cf.kind = "none" THEN [kind |-> "none"]
                     ELSE [kind |-> "call", ticker |-> cf.ticker,
                           fetch_raised |-> cf.fetch_raised]
         IN  IF got.value # None
             THEN /\ cache' = got.cache
                  /\ dcache' = dcache
                  /\ cf' = [kind |-> "call", ticker |-> ticker, feed |-> feed,
                            fetched |-> FALSE, fetch_raised |-> FALSE,
                            outcome |-> "returned", ret |-> got.value, prev |-> prev]
             ELSE IF f.raised
             THEN /\ cache' = got.cache
                  /\ dcache' = f.cache
                  /\ cf' = [kind |-> "call", ticker |-> ticker, feed |-> feed,
                            fetched |-> f.fetched, fetch_raised |-> TRUE,
                            outcome |-> "raised",
                            ret |-> [kind |-> "raised", error |-> "ValueError"],
                            prev |-> prev]
             ELSE IF r.kind = "raised"
             THEN /\ cache' = got.cache
                  /\ dcache' = f.cache
                  /\ cf' = [kind |-> "call", ticker |-> ticker, feed |-> feed,
                            fetched |-> f.fetched, fetch_raised |-> FALSE,
                            outcome |-> "raised", ret |-> r, prev |-> prev]
             ELSE /\ cache' = ttl_set(got.cache, cache_key(ticker), r, now)
                  /\ dcache' = f.cache
                  /\ cf' = [kind |-> "call", ticker |-> ticker, feed |-> feed,
                            fetched |-> f.fetched, fetch_raised |-> FALSE,
                            outcome |-> "returned", ret |-> r, prev |-> prev]
    /\ UNCHANGED <<coreVars, result, now, args, pureVars, rs, sp, rx, tt, io, tc>>

\* time passes between two calls
FetchTick ==
    /\ now < MaxFetchNow
    /\ now' = now + FetchDelay
    /\ UNCHANGED <<coreVars, result, cache, args, pureVars, moreVars>>

NextFetching == ClassifyFetching \/ FetchTick

SpecFetching == Init /\ [][NextFetching]_vars

-----------------------------------------------------------------------------
(* resample_to_weekly, engine.py:223-231.  A date is a day number, day 0 a  *)
(* Saturday, so the week ending Friday that holds day d is week d \div 7    *)
(* and its bar is labelled with that Friday, 7 * (d \div 7) + 6.  A frame   *)
(* is the sequence of its rows in date order.                               *)

Cell(x) == [nan |-> FALSE, v |-> x]

\* "W-FRI": the bucket of a date, and the label of a bucket
week_of(date) == date \div 7

friday_of(week) == 7 * week + 6

\* a volume aggregated by counting the rows of the bucket
agg_volume_count(df, members) == Cardinality(members)

\* engine.py:228  "Volume": "sum" (0 on an empty bucket)
agg_volume(df, members) == SumOver([i \in members |-> df[i].Volume], members)

\* engine.py:223-230  .resample("W-FRI").agg(ohlc_dict): the row of one
\* bucket; first, max, min and last of no row are NaN
agg_week(df, week) ==
    LET members == {i \in 1..Len(df) : week_of(df[i].date) = week}
    IN  IF members = {}
        THEN [date |-> friday_of(week), Open |-> NaN, High |-> NaN, Low |-> NaN,
              Close |-> NaN, Volume |-> Cell(agg_volume(df, members))]
        ELSE [date   |-> friday_of(week),
              Open   |-> Cell(df[SetMin(members)].Open),
              High   |-> Cell(SetMax({df[i].High : i \in members})),
              Low    |-> Cell(SetMin({df[i].Low : i \in members})),
              Close  |-> Cell(df[SetMax(members)].Close),
              Volume |-> Cell(agg_volume(df, members))]

\* the plain values of a row; a NaN cell reads as 0
values_of(row) ==
    [date   |-> row.date,
     Open   |-> IF row.Open.nan THEN 0 ELSE row.Open.v,
     High   |-> IF row.High.nan THEN 0 ELSE row.High.v,
     Low    |-> IF row.Low.nan THEN 0 ELSE row.Low.v,
     Close  |-> IF row.Close.nan THEN 0 ELSE row.Close.v,
     Volume |-> IF row.Volume.nan THEN 0 ELSE row.Volume.v]

weekly_has_no_nan(row) ==
    ~row.Open.nan /\ ~row.High.nan /\ ~row.Low.nan /\ ~row.Close.nan
        /\ ~row.Volume.nan

\* empty buckets kept and filled with 0
fillna_weekly(members) == [k \in 1..Len(members) |-> values_of(members[k])]

\* engine.py:230  .dropna()
dropna_weekly(members) ==
    LET kept == SelectSeq(members, weekly_has_no_nan)
    IN  [k \in 1..Len(kept) |-> values_of(kept[k])]

\* engine.py:223-231: one bucket for every week from the first row's to the
\* last row's, aggregated, rows with NaN dropped
resample_to_weekly(df) ==
    IF Len(df) = 0 THEN << >>
    ELSE LET first == week_of(df[1].date)
             last  == week_of(df[Len(df)].date)
         IN  dropna_weekly([k \in 1..(last - first + 1) |->
                               agg_week(df, first + k - 1)])

\* the daily frames of the model: bars on some of these days (a Thursday and
\* a Friday, the Saturday after it, the next Friday, and a Saturday two
\* weeks later, so that one week in between has no bar)
DayCandidates == {5, 6, 7, 13, 21}

DailyBars ==
    {[Open |-> 10, High |-> 12, Low |-> 9, Close |-> 11, Volume |-> 5],
     [Open |-> 11, High |-> 11, Low |-> 10, Close |-> 10, Volume |-> 0],
     [Open |-> 8, High |-> 13, Low |-> 8, Close |-> 13, Volume |-> 2]}

RECURSIVE SortedDates(_)
SortedDates(S) ==
    IF S = {} THEN << >> ELSE <<SetMin(S)>> \o SortedDates(S \ {SetMin(S)})

DailyFrame(bars) ==
    LET dates == SortedDates(DOMAIN bars)
    IN  [k \in 1..Len(dates) |->
            [date   |-> dates[k],
             Open   |-> bars[dates[k]].Open,
             High   |-> bars[dates[k]].High,
             Low    |-> bars[dates[k]].Low,
             Close  |-> bars[dates[k]].Close,
             Volume |-> bars[dates[k]].Volume]]

\* engine.py:517-518: the daily series is resampled; the weekly series is
\* resampled once more
Resample ==
    /\ rs = NoResult
    /\ \E days \in SUBSET DayCandidates :
         \E bars \in [days -> DailyBars] :
            LET df_daily == DailyFrame(bars)
                weekly   == resample_to_weekly(df_daily)
            IN  rs' = [kind |-> "result", df_daily |-> df_daily,
                       weekly |-> weekly, again |-> resample_to_weekly(weekly)]
    /\ UNCHANGED <<coreVars, result, cache, now, args, pureVars,
                   dcache, cf, sp, rx, tt, io, tc>>

\* the caller takes the weekly series
ResampleReturn ==
    /\ rs # NoResult
    /\ rs' = NoResult
    /\ UNCHANGED <<coreVars, result, cache, now, args, pureVars,
                   dcache, cf, sp, rx, tt, io, tc>>

NextResample == Resample \/ ResampleReturn

SpecResample == Init /\ [][NextResample]_vars

-----------------------------------------------------------------------------
(* The two oscillators on one series of closes, engine.py:390-394.  A value *)
(* is NaN or the fraction num / den.                                        *)

RECURSIVE wilder_sum(_, _, _)
\* talib.RSI averages by Wilder's smoothing: the first average, at row 15,
\* is the mean of the first 14 changes, and each later one is
\* (13 * previous + current) / 14.  wilder_sum(df, i, side) is that average
\* of the gains (side 1) or losses (side 2) at row i, times 14^(i - 14)
wilder_sum(df, i, side) ==
    LET cur(j) == IF side = 1 THEN gain_at(df, j) ELSE loss_at(df, j)
    IN  IF i = RSI_PERIOD + 1
        THEN SumOver([j \in 2..i |-> cur(j)], 2..i)
        ELSE (RSI_PERIOD - 1) * wilder_sum(df, i - 1, side)
                 + (RSI_PERIOD ^ (i - RSI_PERIOD - 1)) * cur(i)

\* engine.py:391  talib.RSI(close, timeperiod=14): NaN on the first 14
\* rows, then 100 * gain / (gain + loss) of the smoothed averages, and 0
\* when both are zero
talib_RSI_value(df, i) ==
    IF i <= RSI_PERIOD THEN NaN
    ELSE LET g == wilder_sum(df, i, 1)
             l == wilder_sum(df, i, 2)
         IN  IF g + l = 0 THEN [nan |-> FALSE, num |-> 0, den |-> 1]
             ELSE [nan |-> FALSE, num |-> 100 * g, den |-> g + l]

\* the series of the model: 14 closes of one shape, then up to MaxTail
\* closes that each move by one of TailMoves
MaxTail == 3

TailMoves == {-1, 0, 1, 2}

HeadShapes == {"flat", "rising", "falling", "zigzag"}

RECURSIVE Walk(_, _, _)
Walk(start, moves, k) ==
    IF k = 0 THEN start ELSE Walk(start, moves, k - 1) + moves[k]

RsiSeries(shape, moves) ==
    [i \in 1..(RSI_PERIOD + Len(moves)) |->
        [Close |-> IF i <= RSI_PERIOD THEN DayClose(shape, RSI_PERIOD, i)
                   ELSE Walk(DayClose(shape, RSI_PERIOD, RSI_PERIOD), moves,
                             i - RSI_PERIOD)]]

TailsOf(n) == [1..n -> TailMoves]

\* engine.py:390-394: the oscillator column, by either implementation
CompareRsi ==
    /\ rx = NoResult
    /\ \E shape \in HeadShapes, n \in 0..MaxTail :
         \E moves \in TailsOf(n) :
            LET df == RsiSeries(shape, moves)
            IN  rx' = [kind   |-> "result", shape |-> shape, moves |-> moves,
                       df     |-> df,
                       talib  |-> [i \in 1..Len(df) |-> talib_RSI_value(df, i)],
                       pandas |-> [i \in 1..Len(df) |-> calculate_rsi_pandas(df, i)]]
    /\ UNCHANGED <<coreVars, result, cache, now, args, pureVars,
                   dcache, cf, rs, sp, tt, io, tc>>

RsiReturn ==
    /\ rx # NoResult
    /\ rx' = NoResult
    /\ UNCHANGED <<coreVars, result, cache, now, args, pureVars,
                   dcache, cf, rs, sp, tt, io, tc>>

NextRsi == CompareRsi \/ RsiReturn

SpecRsi == Init /\ [][NextRsi]_vars

-----------------------------------------------------------------------------
(* One TTLCache used by one caller, cache.py:26-79.  tt.cache is the        *)
(* dictionary; tt.sets remembers, for every key, the latest set (its value, *)
(* its time, and whether clear was called since); tt.last is the latest    *)
(* call and what it returned.                                               *)

\* cache.py:60-62  TTLCache.clear
ttl_clear(c) == EmptyCache

\* cache.py:71-76  the keys cleanup_expired finds expired
expired_keys(c, ttl, t) == {k \in DOMAIN c : t - c[k].timestamp > ttl}

\* cache.py:64-79  TTLCache.cleanup_expired: the count and the dictionary
ttl_cleanup_expired(c, ttl, t) ==
    [count |-> Cardinality(expired_keys(c, ttl, t)),
     cache |-> [k \in DOMAIN c \ expired_keys(c, ttl, t) |-> c[k]]]

TtlKeys == {"k1", "k2"}

TtlValues == {[kind |-> "value", v |-> 1], [kind |-> "value", v |-> 2]}

\* the clock moves in steps of TtlStep up to MaxTtlNow
TtlStep == 150

MaxTtlNow == 600

TtlOpen == tt.kind = "cache"

\* cache.py:34-42  TTLCache(ttl_seconds=CLASS_CACHE_TTL)
TtlNew ==
    /\ tt = NoResult
    /\ tt' = [kind |-> "cache", cache |-> EmptyCache,
              sets |-> [k \in TtlKeys |-> None],
              last |-> [op |-> "new"]]
    /\ UNCHANGED <<coreVars, result, cache, now, args, pureVars,
                   dcache, cf, rs, sp, rx, io, tc>>

\* cache.py:44-54  cache.get(key)
TtlGet ==
    /\ TtlOpen
    /\ \E key \in TtlKeys :
         LET got == ttl_get(tt.cache, CLASS_CACHE_TTL, key, now)
         IN  tt' = [tt EXCEPT !.cache = got.cache,
                              !.last = [op |-> "get", key |-> key, at |-> now,
                                        ret |-> got.value,
                                        found |-> key \in DOMAIN tt.cache,
                                        left |-> key \in DOMAIN got.cache]]
    /\ UNCHANGED <<coreVars, result, cache, now, args, pureVars,
                   dcache, cf, rs, sp, rx, io, tc>>

\* cache.py:56-58  cache.set(key, value)
TtlSet ==
    /\ TtlOpen
    /\ \E key \in TtlKeys, value \in TtlValues :
         tt' = [tt EXCEPT !.cache = ttl_set(tt.cache, key, value, now),
                          !.sets[key] = [value |-> value, at |-> now,
                                         cleared |-> FALSE],
                          !.last = [op |-> "set", key |-> key, at |-> now]]
    /\ UNCHANGED <<coreVars, result, cache, now, args, pureVars,
                   dcache, cf, rs, sp, rx, io, tc>>

\* cache.py:60-62  cache.clear(), as clear_all_caches does (cache.py:181-184)
TtlClear ==
    /\ TtlOpen
    /\ tt' = [tt EXCEPT !.cache = ttl_clear(tt.cache),
                        !.sets = [k \in TtlKeys |->
                                    IF tt.sets[k] = None THEN None
                                    ELSE [tt.sets[k] EXCEPT !.cleared = TRUE]],
                        !.last = [op |-> "clear", at |-> now]]
    /\ UNCHANGED <<coreVars, result, cache, now, args, pureVars,
                   dcache, cf, rs, sp, rx, io, tc>>

\* cache.py:64-79  cache.cleanup_expired()
TtlCleanup ==
    /\ TtlOpen
    /\ LET done == ttl_cleanup_expired(tt.cache, CLASS_CACHE_TTL, now)
       IN  tt' = [tt EXCEPT !.cache = done.cache,
                            !.last = [op |-> "cleanup_expired", at |-> now,
                                      count |-> done.count]]
    /\ UNCHANGED <<coreVars, result, cache, now, args, pureVars,
                   dcache, cf, rs, sp, rx, io, tc>>

\* time passes between two calls
TtlTick ==
    /\ TtlOpen
    /\ now + TtlStep <= MaxTtlNow
    /\ now' = now + TtlStep
    /\ UNCHANGED <<coreVars, result, cache, args, pureVars, moreVars>>

NextTtl == TtlNew \/ TtlGet \/ TtlSet \/ TtlClear \/ TtlCleanup \/ TtlTick

SpecTtl == Init /\ [][NextTtl]_vars

-----------------------------------------------------------------------------
(* The process-wide streams and logger level around yf.download,            *)
(* engine.py:106-140, with fetch_ohlcv running on the worker threads of     *)
(* app.py:428-439.  io.stdout, io.stderr and io.level are sys.stdout,       *)
(* sys.stderr and the level of the "yfinance" logger; each thread has its   *)
(* locals old_level, old_stdout, old_stderr, its attempt and its position.  *)
(* A thread runs one statement at a time and the threads interleave.        *)

IoThreads == {1, 2}

Original == [kind |-> "original"]

StringIO(t) == [kind |-> "StringIO", of |-> t]

\* what one yf.download does: a frame with data, an empty frame, an exception
IoDownloads == {"data", "empty", "error"}

IoRunning(th_) == th_.pc \notin {"idle", "returned", "raised"}

\* engine.py:106-197: the statement at the thread's position, on the shared
\* state g and the thread's locals me; d is what the download does
io_statement(g, me, t, d) ==
    CASE me.pc = "save_level"  ->                       \* 113
           [g |-> g, me |-> [me EXCEPT !.old_level = g.level, !.pc = "set_level"]]
      [] me.pc = "set_level"   ->                       \* 114
           [g |-> [g EXCEPT !.level = "CRITICAL"], me |-> [me EXCEPT !.pc = "save_out"]]
      [] me.pc = "save_out"    ->                       \* 117
           [g |-> g, me |-> [me EXCEPT !.old_stdout = g.stdout, !.pc = "save_err"]]
      [] me.pc = "save_err"    ->                       \* 118
           [g |-> g, me |-> [me EXCEPT !.old_stderr = g.stderr, !.pc = "set_out"]]
      [] me.pc = "set_out"     ->                       \* 121
           [g |-> [g EXCEPT !.stdout = StringIO(t)], me |-> [me EXCEPT !.pc = "set_err"]]
      [] me.pc = "set_err"     ->                       \* 122
           [g |-> [g EXCEPT !.stderr = StringIO(t)], me |-> [me EXCEPT !.pc = "download"]]
      [] me.pc = "download"    ->                       \* 123-129
           [g |-> g, me |-> [me EXCEPT !.got = d,
                                       !.pc = IF d = "error" THEN "except_out"
                                              ELSE "finally_out"]]
      [] me.pc = "except_out"  ->                       \* 132
           [g |-> [g EXCEPT !.stdout = me.old_stdout], me |-> [me EXCEPT !.pc = "except_err"]]
      [] me.pc = "except_err"  ->                       \* 133
           [g |-> [g EXCEPT !.stderr = me.old_stderr], me |-> [me EXCEPT !.pc = "except_level"]]
      [] me.pc = "except_level" ->                      \* 134-135
           [g |-> [g EXCEPT !.level = me.old_level], me |-> [me EXCEPT !.pc = "finally_out"]]
      [] me.pc = "finally_out" ->                       \* 138
           [g |-> [g EXCEPT !.stdout = me.old_stdout], me |-> [me EXCEPT !.pc = "finally_err"]]
      [] me.pc = "finally_err" ->                       \* 139
           [g |-> [g EXCEPT !.stderr = me.old_stderr], me |-> [me EXCEPT !.pc = "finally_level"]]
      [] me.pc = "finally_level" ->                     \* 140
           [g |-> [g EXCEPT !.level = me.old_level], me |-> [me EXCEPT !.pc = "after"]]
      [] me.pc = "after"       ->                       \* 142-195
           [g |-> g,
            me |-> IF me.got = "data" THEN [me EXCEPT !.pc = "returned"]
                   ELSE IF may_retry(me.attempt)
                   THEN [me EXCEPT !.attempt = @ + 1, !.pc = "save_level"]
                   ELSE [me EXCEPT !.pc = "raised"]]

\* the process before any fetch: the streams and the level are the originals
IoOpen ==
    /\ io = NoResult
    /\ io' = [kind |-> "process", stdout |-> Original, stderr |-> Original,
              level |-> "NOTSET", overlap |-> FALSE,
              threads |-> [t \in IoThreads |->
                             [pc |-> "idle", attempt |-> 0, got |-> "none",
                              old_level |-> "NOTSET", old_stdout |-> Original,
                              old_stderr |-> Original]]]
    /\ UNCHANGED <<coreVars, result, cache, now, args, pureVars,
                   dcache, cf, rs, sp, rx, tt, tc>>

\* app.py:428-432: a worker thread starts fetch_ohlcv; io.overlap records
\* that another call was running at that moment
IoCall ==
    /\ io.kind = "process"
    /\ \E t \in IoThreads :
         /\ io.threads[t].pc = "idle"
         /\ io' = [io EXCEPT !.threads[t].pc = "save_level",
                             !.overlap = @ \/ \E u \in IoThreads \ {t} :
                                                  IoRunning(io.threads[u])]
    /\ UNCHANGED <<coreVars, result, cache, now, args, pureVars,
                   dcache, cf, rs, sp, rx, tt, tc>>

\* one statement of one running thread
IoStep ==
    /\ io.kind = "process"
    /\ \E t \in IoThreads, d \in IoDownloads :
         /\ IoRunning(io.threads[t])
         /\ LET g   == [stdout |-> io.stdout, stderr |-> io.stderr, level |-> io.level]
                nxt == io_statement(g, io.threads[t], t, d)
            IN  io' = [io EXCEPT !.stdout = nxt.g.stdout, !.stderr = nxt.g.stderr,
                                 !.level = nxt.g.level, !.threads[t] = nxt.me]
    /\ UNCHANGED <<coreVars, result, cache, now, args, pureVars,
                   dcache, cf, rs, sp, rx, tt, tc>>

NextIo == IoOpen \/ IoCall \/ IoStep

SpecIo == Init /\ [][NextIo]_vars

-----------------------------------------------------------------------------
(* One TTLCache used by several threads at once, cache.py:44-79 under the   *)
(* worker threads of app.py:428-439.  tc.cache is the dictionary shared by  *)
(* the threads, tc.written the values ever set for each key; each thread    *)
(* has the call it is in, its position in it and its locals.  A thread runs *)
(* one dictionary operation at a time and the threads interleave.           *)

TcThreads == {1, 2}

\* the clock moves in steps of TcStepLen up to MaxTcNow
TcStepLen == 400

MaxTcNow == 400

TcOps == {"get", "set", "clear", "cleanup_expired"}

KeyError == [kind |-> "raised", error |-> "KeyError"]

TcIdle == [op |-> "idle", pc |-> "idle", key |-> "", value |-> None,
           timestamp |-> 0, expired |-> {}, ret |-> None]

Without(c, key) == [k \in DOMAIN c \ {key} |-> c[k]]

\* cache.py:44-79: the dictionary operation at the thread's position.  c is
\* the shared dictionary, me the thread, t the time
tc_statement(c, me, t) ==
    CASE me.op = "get" /\ me.pc = "contains" ->          \* 46-47
           IF me.key \notin DOMAIN c
           THEN [c |-> c, me |-> [me EXCEPT !.pc = "done", !.ret = None]]
           ELSE [c |-> c, me |-> [me EXCEPT !.pc = "getitem"]]
      [] me.op = "get" /\ me.pc = "getitem" ->           \* 49
           IF me.key \notin DOMAIN c
           THEN [c |-> c, me |-> [me EXCEPT !.pc = "done", !.ret = KeyError]]
           ELSE [c |-> c, me |-> [me EXCEPT !.pc = "compare",
                                           !.value = c[me.key].value,
                                           !.timestamp = c[me.key].timestamp]]
      [] me.op = "get" /\ me.pc = "compare" ->           \* 50, 54
           IF t - me.timestamp > CLASS_CACHE_TTL
           THEN [c |-> c, me |-> [me EXCEPT !.pc = "delitem"]]
           ELSE [c |-> c, me |-> [me EXCEPT !.pc = "done", !.ret = me.value]]
      [] me.op = "get" /\ me.pc = "delitem" ->           \* 51-52
           IF me.key \notin DOMAIN c
           THEN [c |-> c, me |-> [me EXCEPT !.pc = "done", !.ret = KeyError]]
           ELSE [c |-> Without(c, me.key),
                 me |-> [me EXCEPT !.pc = "done", !.ret = None]]
      [] me.op = "set" ->                                 \* 58
           [c |-> ttl_set(c, me.key, me.value, t),
            me |-> [me EXCEPT !.pc = "done", !.ret = None]]
      [] me.op = "clear" ->                               \* 62
           [c |-> ttl_clear(c), me |-> [me EXCEPT !.pc = "done", !.ret = None]]
      [] me.op = "cleanup_expired" /\ me.pc = "scan" ->  \* 70-76
           [c |-> c,
            me |-> [me EXCEPT !.expired = expired_keys(c, CLASS_CACHE_TTL, t),
                              !.pc = "delitems"]]
      [] me.op = "cleanup_expired" /\ me.pc = "delitems" ->   \* 77-79
           IF me.expired = {}
           THEN [c |-> c, me |-> [me EXCEPT !.pc = "done", !.ret = None]]
           ELSE LET key == CHOOSE k \in me.expired : TRUE
                IN  IF key \notin DOMAIN c
                    THEN [c |-> c, me |-> [me EXCEPT !.pc = "done", !.ret = KeyError]]
                    ELSE [c |-> Without(c, key),
                          me |-> [me EXCEPT !.expired = @ \ {key}]]

\* cache.py:88-89: the cache of the process
TcNew ==
    /\ tc = NoResult
    /\ tc' = [kind |-> "cache", cache |-> EmptyCache,
              written |-> [k \in TtlKeys |-> {}],
              threads |-> [t \in TcThreads |-> TcIdle]]
    /\ UNCHANGED <<coreVars, result, cache, now, args, pureVars,
                   dcache, cf, rs, sp, rx, tt, io>>

\* a thread calls get(key), set(key, value), clear() or cleanup_expired()
TcCall ==
    /\ tc.kind = "cache"
    /\ \E t \in TcThreads, op \in TcOps, key \in TtlKeys, value \in TtlValues :
         /\ tc.threads[t].op = "idle"
         /\ tc' = [tc EXCEPT
                     !.threads[t] =
                        CASE op = "get" -> [TcIdle EXCEPT !.op = op, !.key = key,
                                                          !.pc = "contains"]
                          [] op = "set" -> [TcIdle EXCEPT !.op = op, !.key = key,
                                                          !.value = value,
                                                          !.pc = "setitem"]
                          [] op = "clear" -> [TcIdle EXCEPT !.op = op, !.pc = "clear"]
                          [] op = "cleanup_expired" ->
                               [TcIdle EXCEPT !.op = op, !.pc = "scan"]]
    /\ UNCHANGED <<coreVars, result, cache, now, args, pureVars,
                   dcache, cf, rs, sp, rx, tt, io>>

\* one dictionary operation of one thread
TcStep ==
    /\ tc.kind = "cache"
    /\ \E t \in TcThreads :
         /\ tc.threads[t].op # "idle" /\ tc.threads[t].pc # "done"
         /\ LET me  == tc.threads[t]
                nxt == tc_statement(tc.cache, me, now)
            IN  tc' = [tc EXCEPT
                        !.cache = nxt.c,
                        !.threads[t] = nxt.me,
                        !.written = IF me.op = "set"
                                    THEN [@ EXCEPT ![me.key] = @ \cup {me.value}]
                                    ELSE @]
    /\ UNCHANGED <<coreVars, result, cache, now, args, pureVars,
                   dcache, cf, rs, sp, rx, tt, io>>

\* the caller takes what the call returned or raised
TcReturn ==
    /\ tc.kind = "cache"
    /\ \E t \in TcThreads :
         /\ tc.threads[t].pc = "done"
         /\ tc' = [tc EXCEPT !.threads[t] = TcIdle]
    /\ UNCHANGED <<coreVars, result, cache, now, args, pureVars,
                   dcache, cf, rs, sp, rx, tt, io>>

\* time passes
TcTick ==
    /\ tc.kind = "cache"
    /\ now + TcStepLen <= MaxTcNow
    /\ now' = now + TcStepLen
    /\ UNCHANGED <<coreVars, result, cache, args, pureVars, moreVars>>

NextTc == TcNew \/ TcCall \/ TcStep \/ TcReturn \/ TcTick

SpecTc == Init /\ [][NextTc]_vars

-----------------------------------------------------------------------------
(* The support level and the evaluated close of one daily series,           *)
(* engine.py:515-548: the weekly series is resampled from the daily one.    *)

\* the High column read in place of the Low column
weekly_highs(df_weekly) == [k \in 1..Len(df_weekly) |-> df_weekly[k].High]

\* engine.py:277, 329  df_weekly["Low"]
weekly_lows(df_weekly) == [k \in 1..Len(df_weekly) |-> df_weekly[k].Low]

\* engine.py:517-548: from the daily series to the test of rule 1.  With no
\* indicator row df_ind.iloc[-1] raises and no close is evaluated
support_and_close(df_daily, HAS_TALIB) ==
    LET df_weekly == resample_to_weekly(df_daily)
        lows      == weekly_lows(df_weekly)
        swing_low == find_major_weekly_swing_lows(lows, 2, [set |-> TRUE, pct |-> 3])
        swing_low_price == get_last_major_swing_low(lows, swing_low)
        df_ind    == compute_indicators(df_daily, HAS_TALIB)
    IN  [weeks     |-> Len(df_weekly),
         flagged   |-> \E p \in DOMAIN swing_low : swing_low[p],
         support   |-> swing_low_price,
         rows      |-> Len(df_ind),
         evaluated |-> Len(df_ind) > 0,
         close     |-> IF Len(df_ind) > 0 THEN Latest(df_ind).Close ELSE 0,
         is_below_swing_low |->
             /\ Len(df_ind) > 0
             /\ swing_low_price.kind = "float"
             /\ is_below_swing_low(Latest(df_ind).Close, swing_low_price.value)]

\* the daily series of the model: one bar every day from a first day, the
\* closes of one shape, the Low a fixed gap under the Close
SpShapes == DayShapes \cup {"wave"}

SpLens == {49, 50, 56, 63, 70}

SpStarts == {0, 3}

LowGaps == {0, 1, 3}

SpClose(shape, n, i) ==
    IF shape = "wave"
    THEN LET w == ((i - 1) \div 7) % 6 IN 50 + 10 * (IF w < 3 THEN 3 - w ELSE w - 3)
    ELSE DayClose(shape, n, i)

SpSeries(shape, n, start, gap) ==
    [i \in 1..n |->
        [date   |-> start + i - 1,
         Open   |-> SpClose(shape, n, i),
         High   |-> SpClose(shape, n, i) + 1,
         Low    |-> SpClose(shape, n, i) - gap,
         Close  |-> SpClose(shape, n, i),
         Volume |-> 1]]

\* engine.py:515-548  classify_ticker up to the test of rule 1
SupportOfDaily ==
    /\ sp = NoResult
    /\ \E shape \in SpShapes, n \in SpLens, start \in SpStarts, gap \in LowGaps,
          HAS_TALIB \in BOOLEAN :
         LET df_daily == SpSeries(shape, n, start, gap)
             r        == support_and_close(df_daily, HAS_TALIB)
         IN  sp' = [kind |-> "result", shape |-> shape, n |-> n, start |-> start,
                    gap |-> gap, HAS_TALIB |-> HAS_TALIB,
                    last_close |-> df_daily[n].Close, r |-> r]
    /\ UNCHANGED <<coreVars, result, cache, now, args, pureVars,
                   dcache, cf, rs, rx, tt, io, tc>>

\* classify_ticker goes on with the rules
SupportReturn ==
    /\ sp # NoResult
    /\ sp' = NoResult
    /\ UNCHANGED <<coreVars, result, cache, now, args, pureVars,
                   dcache, cf, rs, rx, tt, io, tc>>

NextSupport == SupportOfDaily \/ SupportReturn

SpecSupport == Init /\ [][NextSupport]_vars

-----------------------------------------------------------------------------
(* Properties of the classifier (specification Spec) *)

Returned == pc = "returned" /\ result.kind = "result"

\* the four rules of the decision order, on the values the call extracted
Rule1 == close < last_swing_low_price
Rule2 == close < sma_200 /\ momentum < 0 /\ prev_momentum < 0
Rule3 == close > sma_200 /\ momentum > 0
Rule4 == close < high_20 /\ close > last_swing_low_price

IsFallback == Returned /\ result.note = <<NOTE_FALLBACK>>

\* C1: a call on a frame of at least one row returns (it does not raise) and
\* the status of what it returns is one of GREEN, YELLOW, RED.
C1_Totality ==
    (pc # "idle" /\ rows >= 1) =>
        /\ Returned
        /\ result.status \in {"GREEN", "YELLOW", "RED"}

\* a call that reached the final else and returned
C1_Witness == Returned /\ rows >= 1 /\ ~Rule1 /\ ~Rule2 /\ ~Rule3 /\ ~Rule4

\* C2: a close strictly below support gives RED with the "structure broken"
\* sentence, whatever the other values are.
C2_StructureFirst ==
    (Returned /\ close < last_swing_low_price) =>
        /\ result.status = "RED"
        /\ NOTE_STRUCTURE \in Sentences(result.note)

\* below support while rule 3 would otherwise make it GREEN
C2_Witness ==
    Returned /\ close < last_swing_low_price /\ Rule3 /\ result.status = "RED"

\* C3: GREEN exactly when the close is not below support, is strictly above
\* the trend average and the latest momentum is strictly positive.
C3_HealthyIff ==
    Returned =>
        (result.status = "GREEN" <=>
            (~(close < last_swing_low_price) /\ close > sma_200 /\ momentum > 0))

\* above the trend average with positive momentum, but below support: not GREEN
C3_Witness ==
    Returned /\ close > sma_200 /\ momentum > 0 /\ prev_momentum < 0
    /\ close < last_swing_low_price /\ result.status # "GREEN"

\* C4: not below support, below the trend average, latest and previous
\* momentum negative: RED with the persistent-momentum note; with a previous
\* momentum >= 0 that note is never given.
C4_PersistentMomentum ==
    /\ (Returned /\ ~(close < last_swing_low_price) /\ close < sma_200
           /\ momentum < 0 /\ prev_momentum < 0)
         => (result.status = "RED" /\ result.note = <<NOTE_PERSISTENT>>)
    /\ (Returned /\ prev_momentum >= 0)
         => NOTE_PERSISTENT \notin Sentences(result.note)

\* rule 2 fired; and a call where only the previous momentum kept it from firing
C4_Witness ==
    Returned /\ result.note = <<NOTE_PERSISTENT>> /\ prev_momentum < 0

C4_WitnessPrev ==
    Returned /\ ~Rule1 /\ close < sma_200 /\ momentum < 0 /\ prev_momentum >= 0
    /\ result.status = "YELLOW"

\* C5: YELLOW exactly when rules 1-3 do not match and support < close <
\* rolling high, both strict.
C5_CorrectiveIff ==
    Returned =>
        (result.status = "YELLOW" <=>
            (~Rule1 /\ ~Rule2 /\ ~Rule3
             /\ last_swing_low_price < close /\ close < high_20))

\* a close on the rolling high, above support, rules 1-3 not matching
C5_Witness ==
    Returned /\ ~Rule1 /\ ~Rule2 /\ ~Rule3 /\ close = high_20
    /\ close > last_swing_low_price /\ result.status # "YELLOW"

\* C6 as stated: the fallback is produced only when none of rules 1-4 matched,
\* and then the close is strictly below the trend average.
C6_FallbackBelowTrend ==
    IsFallback => (~Rule1 /\ ~Rule2 /\ ~Rule3 /\ ~Rule4 /\ close < sma_200)

\* C6 amended: the fallback is produced only when none of rules 1-4 matched;
\* then rule 3 fails on the trend average or on the momentum (the close may
\* be at or above the trend average), and rule 4 fails on a close at support
\* or at or above the rolling high.
C6_FallbackOnlyUnmatched ==
    IsFallback =>
        /\ ~Rule1 /\ ~Rule2 /\ ~Rule3 /\ ~Rule4
        /\ (close <= sma_200 \/ momentum <= 0)
        /\ (close = last_swing_low_price \/ close >= high_20)

\* the fallback with the close strictly above the trend average
C6_Witness == IsFallback /\ close > sma_200

\* C7: with close <= rolling high the fallback is taken only on a close equal
\* to support or equal to the rolling high.
C7_FallbackBoundary ==
    (IsFallback /\ close <= high_20) =>
        (close = last_swing_low_price \/ close = high_20)

C7_Witness ==
    IsFallback /\ close = high_20 /\ close > last_swing_low_price

\* the regime the six values give by the decision order, annotations aside
C8_Regime ==
    IF Rule1 \/ Rule2 THEN "RED"
    ELSE IF Rule3 THEN "GREEN"
    ELSE IF Rule4 THEN "YELLOW"
    ELSE "RED"

\* C8: the status is the one the six values give, whatever the two annotation
\* checks give, and only a YELLOW note carries an annotation.
C8_AnnotationsFrame ==
    Returned =>
        /\ result.status = C8_Regime
        /\ result.status # "YELLOW" =>
              (NOTE_FIB \notin Sentences(result.note)
               /\ NOTE_DIVERGENCE \notin Sentences(result.note))

\* both checks hold on the input of a call that is not YELLOW
C8_Witness ==
    Returned /\ fib_check /\ div_check /\ result.status = "GREEN"

\* the note the values and the two checks give
C9_Note ==
    IF Rule1 THEN <<NOTE_STRUCTURE>>
    ELSE IF Rule2 THEN <<NOTE_PERSISTENT>>
    ELSE IF Rule3 THEN <<NOTE_HEALTHY>>
    ELSE IF Rule4 THEN <<NOTE_CORRECTION>>
                       \o (IF fib_check THEN <<NOTE_FIB>> ELSE << >>)
                       \o (IF div_check THEN <<NOTE_DIVERGENCE>> ELSE << >>)
    ELSE <<NOTE_FALLBACK>>

\* C9: status, price, note and as_of do not depend on how the commentary
\* step ended; when it raised, the call still returns and ai_commentary is
\* the note.
C9_CommentaryIsolated ==
    /\ (pc = "raised" => rows = 0)
    /\ Returned =>
          /\ result.status = C8_Regime
          /\ result.price = close
          /\ result.note = C9_Note
          /\ result.as_of = rows
          /\ commentary = "raise" => result.ai_commentary = result.note

C9_Witness ==
    Returned /\ commentary = "raise" /\ result.status = "YELLOW"
    /\ result.ai_commentary = result.note /\ Len(result.note) = 3

-----------------------------------------------------------------------------
(* Properties of the cached classifier (specification SpecCache) *)

\* what the body computes from the arguments of the latest call
OwnResult ==
    classify_body(args.ticker, args.df_ind, args.swing_low, args.outcome)

\* C10: every call returns the classification of the series it was given:
\* status, price, note and as_of are those computed from this call's series.
C10_OwnSeries ==
    (pc = "returned" /\ OwnResult.kind = "result") =>
        /\ result.status = OwnResult.status
        /\ result.price = OwnResult.price
        /\ result.note = OwnResult.note
        /\ result.as_of = OwnResult.as_of

-----------------------------------------------------------------------------
(* Properties of a watchlist batch (specifications SpecBatch, SpecBatchFair) *)

\* what classify_ticker gives for ticker t when nothing else runs
Alone(t) == {classify_fetched(t, th[t].feed, o) : o \in {"text", "raise"}}

Watchlist == {t \in BatchTickers : th[t].pc # "off"}

\* C11: whatever the interleaving of the worker threads, the result a thread
\* holds for its ticker is the result of classifying that ticker alone, and
\* every cache entry holds a result of the ticker its key names.
C11_NoCrossTalk ==
    /\ \A t \in BatchTickers :
          th[t].res # None => th[t].res \in Alone(t)
    /\ \A k \in DOMAIN cache :
          /\ k[2] \in BatchTickers
          /\ cache[k].value \in Alone(k[2])

\* two threads in flight at once with different results, a third entry cached
C11_Witness ==
    \E t, u \in BatchTickers :
        /\ t # u
        /\ th[t].pc = "row" /\ th[u].pc = "set"
        /\ th[t].res.kind = "result" /\ th[u].res.kind = "result"
        /\ th[t].res.status # th[u].res.status
        /\ <<"classify_ticker", t>> \in DOMAIN cache

\* the rows of a finished batch: one per watchlist ticker, an error row with
\* its own ticker where the classification raised, and elsewhere the row of
\* the ticker's own classification
C12_Rows ==
    /\ out.main # "aborted"
    /\ out.main = "done" =>
          /\ Len(out.rows) = Cardinality(Watchlist)
          /\ \A t \in Watchlist :
                \E i \in 1..Len(out.rows) :
                    LET row == out.rows[i]
                        r   == classify_fetched(t, th[t].feed, "text")
                    IN  /\ row.Ticker = t
                        /\ IF r.kind = "raised"
                           THEN row.Status = <<"cross", "Error">>
                           ELSE /\ row.Status = <<r.emoji, r.status>>
                                /\ row.Price = r.price
                                /\ row.Note = r.note
                                /\ row.AsOf = r.as_of

\* C12: a batch always completes, with exactly one row per watchlist ticker:
\* an error row carrying its own ticker where the classification raised, and
\* for every other ticker the row of its own classification.
C12_BatchCompletes ==
    /\ []C12_Rows
    /\ (out.main = "running") ~> (out.main = "done")

\* a finished batch of three with one failed ticker and two classified
C12_Witness ==
    /\ out.main = "done"
    /\ Len(out.rows) = 3
    /\ \E i, j \in 1..3 :
          /\ out.rows[i].Status = <<"cross", "Error">>
          /\ out.rows[j].Status[2] = "GREEN"
          /\ out.rows[i].Ticker = "AAPL"

-----------------------------------------------------------------------------
(* Properties of the swing-low detector (specification SpecSwing) *)

SwCalled == sw.kind = "result"

SwN == Len(sw.lows)

Flagged == {p \in 0..(SwN - 1) : sw.swing_low[p]}

\* the mean-depth condition of the statement, in integers: with W the lows at
\* positions i - lookback .. i + lookback, (mean(W) - low) / mean(W) * 100 >= pct
DeepEnough(i) ==
    LET W == {p \in 0..(SwN - 1) : i - sw.lookback <= p /\ p <= i + sw.lookback}
        s == SumAt(sw.lows, W)
    IN  (s - Cardinality(W) * At(sw.lows, i)) * 100 >= sw.prominence.pct * s

\* C13: bar i is flagged exactly when lookback <= i < n - lookback, its low is
\* strictly below every low in [i - lookback, i) and in (i, i + lookback],
\* and, when a prominence is set, its depth below the window mean reaches the
\* prominence; a series of fewer than 2 * lookback + 1 bars has no flagged bar.
C13_FlaggedIff ==
    SwCalled =>
        /\ \A i \in 0..(SwN - 1) :
              sw.swing_low[i] <=>
                /\ sw.lookback <= i /\ i < SwN - sw.lookback
                /\ \A p \in (i - sw.lookback)..(i - 1) : At(sw.lows, i) < At(sw.lows, p)
                /\ \A p \in (i + 1)..(i + sw.lookback) : At(sw.lows, i) < At(sw.lows, p)
                /\ sw.prominence.set => DeepEnough(i)
        /\ SwN < 2 * sw.lookback + 1 => Flagged = {}

\* a strict local minimum that the prominence rejects next to one it keeps
C13_Witness ==
    /\ SwCalled /\ sw.prominence.set
    /\ \E i, j \in 0..(SwN - 1) :
          /\ sw.swing_low[i]
          /\ ~sw.swing_low[j]
          /\ sw.lookback <= j /\ j < SwN - sw.lookback
          /\ \A p \in (j - sw.lookback)..(j + sw.lookback) :
                p # j => At(sw.lows, j) < At(sw.lows, p)

\* C14: no two bars whose positions differ by at most lookback are both
\* flagged, whatever the lows are (equal values included).
C14_NoNeighbours ==
    SwCalled =>
        \A i, j \in Flagged : i # j => Abs(i - j) > sw.lookback

\* two flagged bars as close as they can be, in a series with equal lows
C14_Witness ==
    /\ SwCalled
    /\ \E i, j \in Flagged : j - i = sw.lookback + 1
    /\ \E p, q \in 0..(SwN - 1) : p # q /\ At(sw.lows, p) = At(sw.lows, q)

\* C15: the support level is the low of the flagged bar of greatest position
\* when a bar is flagged; otherwise it is the minimum low of the last
\* min(20, n) bars, and it is a number for every non-empty series.
C15_LastSwingLow ==
    SwCalled =>
        /\ Flagged # {} =>
              /\ sw.support.kind = "float"
              /\ \E p \in Flagged :
                    /\ \A q \in Flagged : q <= p
                    /\ sw.support.value = At(sw.lows, p)
        /\ (Flagged = {} /\ SwN > 0) =>
              /\ sw.support.kind = "float"
              /\ \E p \in 0..(SwN - 1) :
                    /\ p >= SwN - SUPPORT_TAIL
                    /\ sw.support.value = At(sw.lows, p)
              /\ \A p \in 0..(SwN - 1) :
                    p >= SwN - SUPPORT_TAIL => sw.support.value <= At(sw.lows, p)

\* the latest flagged bar is not the lowest: an older flagged bar is lower
C15_Witness ==
    /\ SwCalled
    /\ \E p, q \in Flagged :
          /\ q < p
          /\ At(sw.lows, q) < At(sw.lows, p)
          /\ sw.support.value = At(sw.lows, p)

\* no bar flagged in a series longer than the window, whose lowest bar lies
\* before the window
C15_WitnessFallback ==
    /\ SwCalled /\ Flagged = {} /\ SwN > SUPPORT_TAIL
    /\ \E p \in 0..(SwN - 1) : At(sw.lows, p) < sw.support.value

-----------------------------------------------------------------------------
(* Properties of the divergence detector (specification SpecDiv) *)

DvCalled == dv.kind = "result"

\* the bars of the trailing window
DvWindow == {i \in 1..Len(dv.df) : i > Len(dv.df) - dv.lookback_bars}

DvOversold == {i \in DvWindow : dv.df[i].rsi_14 < OVERSOLD_LEVEL}

\* C16: the detector answers as the four-step procedure: within the trailing
\* window take the latest bar with oscillator below the threshold (false if
\* none); false if its close exceeds support * 1.05; otherwise true exactly
\* when a later bar of the window has a higher oscillator value and a close
\* >= support * 0.97.  Nothing before the window enters, and an oversold bar
\* that ends the window gives false.
C16_FourSteps ==
    DvCalled =>
        /\ dv.value <=>
              /\ DvOversold # {}
              /\ \E o \in DvOversold :
                    /\ \A i \in DvOversold : i <= o
                    /\ 100 * dv.df[o].Close <= 105 * dv.swing_low_price
                    /\ \E j \in DvWindow :
                          /\ j > o
                          /\ dv.df[j].rsi_14 > dv.df[o].rsi_14
                          /\ 100 * dv.df[j].Close >= 97 * dv.swing_low_price
        /\ (Len(dv.df) \in DvOversold) => ~dv.value

\* an oversold bar near support before the window, followed by a higher
\* oscillator value, and yet the answer is false: the window has no oversold bar
C16_Witness ==
    /\ DvCalled /\ ~dv.value
    /\ DvOversold = {}
    /\ \E o \in 1..Len(dv.df) :
          /\ o \notin DvWindow
          /\ dv.df[o].rsi_14 < OVERSOLD_LEVEL
          /\ dv.df[o].Close = 10
          /\ \E j \in DvWindow : dv.df[j].rsi_14 > dv.df[o].rsi_14 /\ dv.df[j].Close = 10

\* a true answer from the latest of two oversold bars of the window
C16_WitnessTrue ==
    /\ DvCalled /\ dv.value
    /\ Cardinality(DvOversold) = 2

-----------------------------------------------------------------------------
(* Properties of the corrective annotations (specification SpecLong) *)

SnCorrective == sn.kind = "result" /\ sn.result.status = "YELLOW"

SnLen == Len(sn.df_ind)

\* H: the maximum High of the trailing 60 rows
SnH == SetMax({sn.df_ind[i].High : i \in {k \in 1..SnLen : k > SnLen - 60}})

\* C17: in a CORRECTIVE result the note has the Fibonacci sentence exactly
\* when H > S and |close - (H - 0.618 * (H - S))| / H < 0.03, H being the
\* maximum High of the trailing 60 rows and S the support; it has the
\* divergence sentence exactly when the detector, with oversold level 30 and
\* window 80, answers true.
C17_Annotations ==
    SnCorrective =>
        LET c == sn.df_ind[SnLen].Close
            S == sn.swing_low
        IN  /\ NOTE_FIB \in Sentences(sn.result.note) <=>
                  /\ SnH > S
                  /\ Abs(1000 * c - (1000 * SnH - 618 * (SnH - S))) < 30 * SnH
            /\ NOTE_DIVERGENCE \in Sentences(sn.result.note) <=>
                  check_hidden_bullish_divergence(sn.df_ind, S, 30, 80)

\* both sentences, with a higher High just before the trailing 60 rows
C17_Witness ==
    /\ SnCorrective
    /\ SnLen = 61
    /\ sn.df_ind[1].High > SnH
    /\ NOTE_FIB \in Sentences(sn.result.note)
    /\ NOTE_DIVERGENCE \in Sentences(sn.result.note)

\* an oversold bar just before the trailing 80 rows: no divergence sentence
C17_WitnessWindow ==
    /\ SnCorrective
    /\ SnLen = 81
    /\ sn.df_ind[1].rsi_14 < 30
    /\ sn.df_ind[SnLen].rsi_14 > sn.df_ind[1].rsi_14
    /\ NOTE_DIVERGENCE \notin Sentences(sn.result.note)

\* the close within 3% of the level but H = S: no Fibonacci sentence
C17_WitnessGuard ==
    /\ SnCorrective
    /\ SnH = sn.swing_low
    /\ sn.df_ind[SnLen].Close = 102
    /\ NOTE_FIB \notin Sentences(sn.result.note)

-----------------------------------------------------------------------------
(* Properties of compute_indicators (specification SpecInd) *)

CiCalled == ci.kind = "result"

CiN == Len(ci.df_daily)

\* C18: the output of compute_indicators on n bars is the last n - 49 bars
\* when n >= 50 and is empty when n < 50: only warm-up rows are lost.
C18_WarmupOnly ==
    CiCalled =>
        /\ Len(ci.df_ind) = IF CiN >= 50 THEN CiN - 49 ELSE 0
        /\ \A k \in 1..Len(ci.df_ind) : ci.df_ind[k].t = 49 + k

\* the library-backed build loses the warm-up rows only
C18_WithLibrary ==
    (CiCalled /\ ci.HAS_TALIB) =>
        /\ Len(ci.df_ind) = IF CiN >= 50 THEN CiN - 49 ELSE 0
        /\ \A k \in 1..Len(ci.df_ind) : ci.df_ind[k].t = 49 + k

\* a row past the warm-up is lost: its 14 close changes are all zero
C18_RowLost ==
    /\ CiCalled /\ ~ci.HAS_TALIB /\ CiN >= 50
    /\ Len(ci.df_ind) < CiN - 49

-----------------------------------------------------------------------------
(* Short series through the cache wrapper (specification SpecCache) *)

\* the latest call was given a series that yields no indicator row
ShortCall == pc # "idle" /\ Len(args.df_ind) = 0

\* C19: a call on a series that yields no indicator row raises and returns
\* no result: a TrafficLightResult is never returned for such a series.
C19_ShortSeriesRaises ==
    ShortCall => (pc = "raised" /\ result.kind = "raised")

\* a call on such a series stores nothing in the classification cache
C19_NothingStored ==
    [][(pc = "idle" /\ pc' # "idle" /\ Len(args'.df_ind) = 0) =>
          /\ DOMAIN cache' \subseteq DOMAIN cache
          /\ \A k \in DOMAIN cache' : cache'[k] = cache[k]]_vars

\* a call on such a series that raised while another ticker is cached
C19_Raised ==
    ShortCall /\ pc = "raised" /\ cache # EmptyCache

-----------------------------------------------------------------------------
(* Properties of fetch_ohlcv (specifications SpecFetch, SpecFetchFair) *)

FtCalled == ft.kind = "call"

FtFinished == FtCalled /\ ft.pc \in {"returned", "raised"}

\* positions of the log that are downloads, and that are sleeps
FtDownloads == {i \in 1..Len(ft.log) : ft.log[i].op = "download"}

FtSleeps == {i \in 1..Len(ft.log) : ft.log[i].op = "sleep"}

\* at most 3 downloads; the k-th sleep lasts retry_delay * k and stands
\* between two downloads; a finished call has returned a non-empty series
\* or raised ValueError
C20_Bounded ==
    FtCalled =>
        /\ Cardinality(FtDownloads) <= 3
        /\ \A i \in FtSleeps :
              /\ i - 1 \in FtDownloads
              /\ ft.log[i].s =
                    retry_delay * Cardinality({j \in FtDownloads : j < i})
              /\ Cardinality({j \in FtDownloads : j < i}) < 3
              /\ FtFinished => i < Len(ft.log)
        /\ FtFinished =>
              \/ ft.pc = "returned" /\ ft.ret.rows > 0
              \/ ft.pc = "raised" /\ ft.ret = [error |-> "ValueError"]

\* C20: fetch_ohlcv terminates after at most 3 yfinance downloads, waiting
\* retry_delay * (attempt + 1) between attempts and never after the last;
\* it returns a non-empty series or raises ValueError.
C20_BoundedRetries ==
    /\ []C20_Bounded
    /\ (FtCalled /\ ~FtFinished) ~> FtFinished

\* three downloads with sleeps of 1 and 2 between them, then ValueError
C20_Witness ==
    /\ FtFinished /\ ft.pc = "raised"
    /\ Cardinality(FtDownloads) = 3
    /\ \E i, j \in FtSleeps : ft.log[i].s = 1 /\ ft.log[j].s = 2
    /\ ft.log[Len(ft.log)].op = "download"

\* a frame whose rows all hold NaN, then a series returned on the third attempt
C20_WitnessReturned ==
    /\ FtFinished /\ ft.pc = "returned"
    /\ Cardinality(FtDownloads) = 3
    /\ ft.ret.rows = 1

-----------------------------------------------------------------------------
(* Properties of the fetching classifier (specification SpecFetching) *)

\* the latest call ran fetch_ohlcv and it raised
FetchRaised == cf.kind = "call" /\ cf.fetched /\ cf.feed.kind = "fail"

C21_WitnessExpired ==
    /\ FetchRaised
    /\ now > DATA_CACHE_TTL
    /\ cf.prev.kind = "call" /\ cf.prev.ticker = cf.ticker /\ ~cf.prev.fetch_raised

-----------------------------------------------------------------------------
(* Properties of resample_to_weekly (specification SpecResample) *)

RsCalled == rs.kind = "result"

\* the daily rows of the week that ends on the given Friday
RsBucket(friday) ==
    {i \in 1..Len(rs.df_daily) :
        rs.df_daily[i].date <= friday /\ rs.df_daily[i].date > friday - 7}

\* the Fridays whose week holds at least one daily bar
RsFridays ==
    {f \in 0..30 : f % 7 = 6 /\ RsBucket(f) # {}}

\* C22: one weekly bar for each week ending Friday that holds a daily bar
\* and none for the other weeks; its open is the first daily open, its high
\* the highest high, its low the lowest low, its close the last daily close
\* and its volume the sum of the daily volumes of the week; the weekly
\* series is not longer than the daily one and is empty for an empty input.
C22_WeeklyBars ==
    RsCalled =>
        /\ Len(rs.weekly) = Cardinality(RsFridays)
        /\ \A f \in RsFridays : \E k \in 1..Len(rs.weekly) : rs.weekly[k].date = f
        /\ \A k \in 1..Len(rs.weekly) :
              LET w == rs.weekly[k]
                  B == RsBucket(w.date)
              IN  /\ w.date \in RsFridays
                  /\ \A j \in 1..Len(rs.weekly) : j < k => rs.weekly[j].date < w.date
                  /\ \E i \in B : (\A j \in B : i <= j) /\ w.Open = rs.df_daily[i].Open
                  /\ \E i \in B : (\A j \in B : j <= i) /\ w.Close = rs.df_daily[i].Close
                  /\ \E i \in B : w.High = rs.df_daily[i].High
                  /\ \A i \in B : rs.df_daily[i].High <= w.High
                  /\ \E i \in B : w.Low = rs.df_daily[i].Low
                  /\ \A i \in B : w.Low <= rs.df_daily[i].Low
                  /\ w.Volume = SumOver([i \in B |-> rs.df_daily[i].Volume], B)
        /\ Len(rs.weekly) <= Len(rs.df_daily)
        /\ Len(rs.df_daily) = 0 => Len(rs.weekly) = 0

\* five daily bars in three weeks, with a week without bars between them
C22_Witness ==
    /\ RsCalled
    /\ Len(rs.df_daily) = 5 /\ Len(rs.weekly) = 3
    /\ rs.weekly[3].date - rs.weekly[2].date = 14
    /\ rs.weekly[1].High > rs.df_daily[1].High

\* C23: resampling a weekly series that this function produced returns as
\* many rows, with the same open, high, low, close and volume in every row.
C23_Idempotent ==
    RsCalled =>
        /\ Len(rs.again) = Len(rs.weekly)
        /\ \A k \in 1..Len(rs.weekly) :
              /\ rs.again[k].Open = rs.weekly[k].Open
              /\ rs.again[k].High = rs.weekly[k].High
              /\ rs.again[k].Low = rs.weekly[k].Low
              /\ rs.again[k].Close = rs.weekly[k].Close
              /\ rs.again[k].Volume = rs.weekly[k].Volume

\* a weekly series of three bars with a gap, whose bars differ, resampled again
C23_Witness ==
    /\ RsCalled
    /\ Len(rs.weekly) = 3 /\ Len(rs.again) = 3
    /\ rs.weekly[3].date - rs.weekly[2].date = 14
    /\ rs.weekly[1].Volume > 1
    /\ rs.weekly[1].Open # rs.weekly[1].Close

-----------------------------------------------------------------------------
(* The oscillator of compute_indicators (specification SpecInd) *)

\* the gains and the losses of the 14 close changes that end at row i
CiGain(i) ==
    SumOver([j \in RollIdx(i, RSI_PERIOD) |-> gain_at(ci.df_daily, j)],
            RollIdx(i, RSI_PERIOD))

CiLoss(i) ==
    SumOver([j \in RollIdx(i, RSI_PERIOD) |-> loss_at(ci.df_daily, j)],
            RollIdx(i, RSI_PERIOD))

\* the oscillator of row i is the number v
CiRsiIs(i, v) ==
    LET r == calculate_rsi_pandas(ci.df_daily, i)
    IN  ~r.nan /\ r.num = v * r.den

\* C24: every oscillator value lies in [0, 100]; a window with zero average
\* loss gives 100 and one with zero average gain gives 0, and the window in
\* which both averages are zero also gives one of the two saturation values.
C24_Saturates ==
    (CiCalled /\ ~ci.HAS_TALIB) =>
        /\ \A k \in 1..Len(ci.df_ind) :
              LET r == ci.df_ind[k].rsi_14
              IN  0 <= r.num /\ r.num <= 100 * r.den /\ r.den > 0
        /\ \A i \in RSI_PERIOD..CiN :
              /\ (CiLoss(i) = 0 /\ CiGain(i) > 0) => CiRsiIs(i, 100)
              /\ (CiGain(i) = 0 /\ CiLoss(i) > 0) => CiRsiIs(i, 0)
              /\ (CiGain(i) = 0 /\ CiLoss(i) = 0) => (CiRsiIs(i, 100) \/ CiRsiIs(i, 0))

\* what the code does keep: the range of the values that are returned and
\* the two one-sided saturations
C24_OneSided ==
    (CiCalled /\ ~ci.HAS_TALIB) =>
        /\ \A k \in 1..Len(ci.df_ind) :
              LET r == ci.df_ind[k].rsi_14
              IN  0 <= r.num /\ r.num <= 100 * r.den /\ r.den > 0
        /\ \A i \in RSI_PERIOD..CiN :
              /\ (CiLoss(i) = 0 /\ CiGain(i) > 0) => CiRsiIs(i, 100)
              /\ (CiGain(i) = 0 /\ CiLoss(i) > 0) => CiRsiIs(i, 0)

\* a window of 14 unchanged closes: the oscillator is NaN
C24_BothZero ==
    /\ CiCalled /\ ~ci.HAS_TALIB
    /\ \E i \in RSI_PERIOD..CiN :
          CiGain(i) = 0 /\ CiLoss(i) = 0 /\ calculate_rsi_pandas(ci.df_daily, i).nan

-----------------------------------------------------------------------------
(* The two oscillator implementations (specification SpecRsi) *)

RxCalled == rx.kind = "result"

\* two values agree to within 1e-6: both undefined, or both numbers whose
\* difference |a.num/a.den - b.num/b.den| is at most 1/1000000
Within(a, b) ==
    IF a.nan \/ b.nan THEN a.nan /\ b.nan
    ELSE Abs(a.num * b.den - b.num * a.den) <= (a.den * b.den) \div 1000000

\* C25: talib.RSI and _calculate_rsi_pandas agree to within 1e-6 on every
\* bar of the same input.
C25_Agree ==
    RxCalled => \A i \in 1..Len(rx.df) : Within(rx.talib[i], rx.pandas[i])

\* where they do agree: on rows 1 to 13, on row 15 unless no close has
\* changed, and from row 15 on in a series that only rises or only falls
C25_AgreeOnSeed ==
    RxCalled =>
        /\ \A i \in 1..(RSI_PERIOD - 1) : Within(rx.talib[i], rx.pandas[i])
        /\ (Len(rx.df) > RSI_PERIOD /\ ~rx.pandas[RSI_PERIOD + 1].nan)
              => Within(rx.talib[RSI_PERIOD + 1], rx.pandas[RSI_PERIOD + 1])
        /\ (rx.shape \in {"rising", "falling"}
               /\ \A k \in 1..Len(rx.moves) :
                     IF rx.shape = "rising" THEN rx.moves[k] > 0 ELSE rx.moves[k] < 0)
              => \A i \in (RSI_PERIOD + 1)..Len(rx.df) :
                    Within(rx.talib[i], rx.pandas[i])

\* both give a number on some bar, more than 1e-6 apart
C25_NumbersDiffer ==
    /\ RxCalled
    /\ \E i \in 1..Len(rx.df) :
          ~rx.talib[i].nan /\ ~rx.pandas[i].nan /\ ~Within(rx.talib[i], rx.pandas[i])

\* one gives a number where the other gives NaN, on a window without change
C25_NaNDiffers ==
    /\ RxCalled
    /\ \E i \in (RSI_PERIOD + 1)..Len(rx.df) : ~rx.talib[i].nan /\ rx.pandas[i].nan

-----------------------------------------------------------------------------
(* The RapidAPI provider in fetch_ohlcv (specification SpecFetch) *)

\* the positions of the log where the given provider was called
FtCalls(op) == {k \in 1..Len(ft.log) : ft.log[k].op = op}

\* a call with use_rapidapi enabled whose RapidAPI step is over
RapidTried == ft.kind = "call" /\ ft.use_rapidapi /\ ft.pc # "rapidapi"

\* C26: with use_rapidapi enabled the RapidAPI provider is consulted once
\* and before any yfinance attempt; a non-empty series from it is returned
\* and yfinance is never called; None, an empty series or an exception
\* lead to the yfinance loop, and the caller only ever sees the outcome of
\* that loop, never the failure of RapidAPI.
C26_RapidApiFirst ==
    /\ (ft.kind = "call" /\ ft.pc = "rapidapi") => ft.log = << >>
    /\ RapidTried =>
          /\ FtCalls("rapidapi") = {1}
          /\ IF ft.log[1].got.kind = "df" /\ ft.log[1].got.rows > 0
             THEN /\ ft.pc = "returned"
                  /\ ft.ret = [rows |-> ft.log[1].got.rows]
                  /\ FtCalls("download") = {}
             ELSE /\ ft.pc \in {"loop", "returned", "raised"}
                  /\ ft.pc = "loop" => ft.ret = None
                  /\ ft.pc = "returned" =>
                        /\ ft.log[Len(ft.log)].op = "download"
                        /\ ft.ret = [rows |-> ft.log[Len(ft.log)].got.valid]
                  /\ ft.pc = "raised" =>
                        /\ Cardinality(FtCalls("download")) = max_retries
                        /\ ft.ret = [error |-> "ValueError"]

\* RapidAPI raised, yfinance then failed three times: the caller gets the
\* error of the retry loop
C26_Witness ==
    /\ RapidTried /\ ft.pc = "raised"
    /\ ft.log[1].got.kind = "error"
    /\ Cardinality(FtCalls("download")) = max_retries

\* RapidAPI gave a series: it is returned without a yfinance call
C26_WitnessServed ==
    /\ RapidTried /\ ft.pc = "returned" /\ Len(ft.log) = 1

\* RapidAPI gave an empty series and yfinance then served the call
C26_WitnessEmpty ==
    /\ RapidTried /\ ft.pc = "returned"
    /\ ft.log[1].got.kind = "df" /\ ft.log[1].got.rows = 0
    /\ FtCalls("download") # {}

-----------------------------------------------------------------------------
(* Properties of TTLCache.get (specification SpecTtl) *)

\* the latest call was a get
TtGot == TtlOpen /\ tt.last.op = "get"

\* the latest set of the key of that get, or None
TtSet == tt.sets[tt.last.key]

\* C27 as stated: get(k) returns the value of the most recent set(k, v) if
\* and only if that set happened no more than ttl before the get, and
\* returns None otherwise.
C27_FreshIff ==
    TtGot =>
        IF TtSet # None /\ tt.last.at - TtSet.at <= CLASS_CACHE_TTL
        THEN tt.last.ret = TtSet.value
        ELSE tt.last.ret = None

\* C27, amended: get(k) returns the value of the most recent set(k, v) if
\* and only if that set happened no more than ttl before the get and clear
\* was not called since; otherwise it returns None, and a get that finds an
\* expired entry deletes it.
C27_FreshUnlessCleared ==
    TtGot =>
        /\ IF TtSet # None /\ ~TtSet.cleared
                /\ tt.last.at - TtSet.at <= CLASS_CACHE_TTL
           THEN tt.last.ret = TtSet.value /\ tt.last.left
           ELSE tt.last.ret = None /\ ~tt.last.left
        /\ (tt.last.found /\ tt.last.ret = None) =>
              /\ tt.last.at - TtSet.at > CLASS_CACHE_TTL
              /\ ~tt.last.left

\* a get exactly ttl after the set returns the value
C27_Witness ==
    /\ TtGot /\ TtSet # None
    /\ tt.last.at - TtSet.at = CLASS_CACHE_TTL
    /\ tt.last.ret = TtSet.value

\* a get later than that finds the entry and deletes it
C27_WitnessExpired ==
    /\ TtGot /\ TtSet # None /\ ~TtSet.cleared
    /\ tt.last.at - TtSet.at > CLASS_CACHE_TTL
    /\ tt.last.found /\ ~tt.last.left /\ tt.last.ret = None

\* a get shortly after a set, with a clear in between, returns None
C27_WitnessCleared ==
    /\ TtGot /\ TtSet # None /\ TtSet.cleared
    /\ tt.last.at - TtSet.at <= CLASS_CACHE_TTL
    /\ tt.last.ret = None

-----------------------------------------------------------------------------
(* The streams after concurrent fetches (specification SpecIo) *)

\* every call that was started has finished, and one was started
IoAllFinished ==
    /\ io.kind = "process"
    /\ \A t \in IoThreads : ~IoRunning(io.threads[t])
    /\ \E t \in IoThreads : io.threads[t].pc # "idle"

IoRestored ==
    io.stdout = Original /\ io.stderr = Original /\ io.level = "NOTSET"

\* C28: after every fetch_ohlcv call has finished, sys.stdout, sys.stderr
\* and the yfinance logger level are the ones in place before the first
\* call started, also for calls that ran concurrently, failed or retried.
C28_StreamsRestored == IoAllFinished => IoRestored

\* calls that do not overlap restore everything, failed and retried or not
C28_SequentialRestored == (IoAllFinished /\ ~io.overlap) => IoRestored

\* both calls are over and sys.stdout is still the StringIO of one of them
C28_Leaked ==
    /\ IoAllFinished
    /\ \A t \in IoThreads : io.threads[t].pc \in {"returned", "raised"}
    /\ io.stdout.kind = "StringIO"

\* two calls one after the other, one of them retried and failed
C28_SequentialDone ==
    /\ IoAllFinished /\ ~io.overlap
    /\ \A t \in IoThreads : io.threads[t].pc \in {"returned", "raised"}
    /\ \E t \in IoThreads : io.threads[t].pc = "raised"

-----------------------------------------------------------------------------
(* TTLCache.get under concurrent calls (specification SpecTc) *)

\* thread t has finished a get
TcGot(t) ==
    tc.kind = "cache" /\ tc.threads[t].op = "get" /\ tc.threads[t].pc = "done"

\* C29: get never raises: under any interleaving of concurrent get, set,
\* clear and cleanup_expired calls on one cache, each get returns None or a
\* value that was set for its key.
C29_GetNeverRaises ==
    \A t \in TcThreads :
        TcGot(t) =>
            \/ tc.threads[t].ret = None
            \/ tc.threads[t].ret \in tc.written[tc.threads[t].key]

\* a get that does return gives None or a value that was set for its key
C29_ReturnsWhatWasSet ==
    \A t \in TcThreads :
        (TcGot(t) /\ tc.threads[t].ret # KeyError) =>
            \/ tc.threads[t].ret = None
            \/ tc.threads[t].ret \in tc.written[tc.threads[t].key]

\* two gets found the same expired key: one deleted it, the other raised
C29_Raised ==
    /\ TcGot(1) /\ TcGot(2)
    /\ tc.threads[1].key = tc.threads[2].key
    /\ {tc.threads[1].ret, tc.threads[2].ret} = {None, KeyError}
    /\ tc.threads[1].timestamp = tc.threads[2].timestamp
    /\ now - tc.threads[1].timestamp > CLASS_CACHE_TTL

-----------------------------------------------------------------------------
(* The fallback support level (specification SpecSupport) *)

\* a close was evaluated and no weekly bar was flagged
SpFallback == sp.kind = "result" /\ sp.r.evaluated /\ ~sp.r.flagged

\* C30: when the weekly series is resampled from the same daily series
\* (bars with low <= close) and no weekly bar is flagged as a swing low, the
\* fallback support level is not above the close that classify_ticker
\* evaluates, so rule 1 does not fire.
C30_FallbackNotAboveClose ==
    SpFallback =>
        /\ sp.r.support.kind = "float"
        /\ sp.r.support.value <= sp.r.close
        /\ ~sp.r.is_below_swing_low

\* the fallback equals the evaluated close: a falling series whose lows are
\* its closes
C30_Witness ==
    /\ SpFallback
    /\ sp.r.weeks > 5
    /\ sp.r.support.value = sp.r.close
    /\ sp.shape = "falling"

\* the fallback build of the oscillator dropped the latest rows and the
\* close of an earlier row was evaluated
C30_WitnessDropped ==
    /\ SpFallback /\ ~sp.HAS_TALIB
    /\ sp.r.rows < sp.n - 49
    /\ sp.r.support.value < sp.r.close

\* a series with a flagged weekly bar, to which the claim does not apply
C30_WitnessFlagged ==
    /\ sp.kind = "result" /\ sp.r.evaluated /\ sp.r.flagged
====
